---- MODULE Spec2Model ----
(***************************************************************************)
(* EXIN-AST, the experimental interpreter: a model of the scanner          *)
(* (scanner.c over module.c), of the slice operations of strings and       *)
(* lists (str.c, list.c, strndup.c) and of the tree-walking evaluator      *)
(* (visit.c over object.c, list.c, identifier.c, stack.c).                 *)
(*                                                                         *)
(* Characters are one-character strings, a text is a sequence of them.     *)
(* C positions are 0-based: the character code[pos] of the C source is     *)
(* code[pos + 1] here.                                                     *)
(***************************************************************************)
EXTENDS Integers, Sequences, FiniteSets, TLC

\* ------------------------------------------------------------------------
\* Program constants (config.h)
\* ------------------------------------------------------------------------
MAXINDENT == 132
TABSIZE == 4
BUFSIZE == 128

\* ------------------------------------------------------------------------
\* Bounds of the model
\* ------------------------------------------------------------------------
\* number of lines of a generated source file
MaxLines == 3
\* the scanner is not called again once module.lineno has passed this value
MaxLineno == 140
\* length of a sequence sliced, and the largest index given to a slice
MaxLen == 3
MaxIndex == 5
\* length of the sequences searched with in
MaxWord == 2
\* the evaluator is not stepped further once it holds this many objects, or
\* this many visits in progress
MaxHeap == 60
MaxVisits == 24
\* the numbers compared and divided are at most this far from 0 and from 256
MaxNumber == 2
\* the lists copied are nested to this depth
MaxDepth == 2
\* number of statements of a module that is imported or imports
MaxStatements == 2
\* number of calls of the scanner remembered
MaxHistory == 3
\* number of steps of the static check of a program
MaxChecks == 200
\* listnodes allocated for the two lists of the list model
MaxNodes == 5

VARIABLES
    \* module.c: struct module
    code, pos, bol, lineno,
    \* scanner.c: struct scanner
    token, peeked, at_bol, string, indentlevel, indentation,
    \* the word that follows indentation[] in struct scanner: the pointer next
    past,
    \* "run", or how the process ended
    scan_status,
    \* history: the line being scanned, its column, the indentation stack
    \* when its scan began, the tokens read for it so far, and whether the
    \* line had been scanned before (again)
    cur,
    \* history: the lines whose scan has begun
    lines_seen,
    \* history: the last calls of scanner.peek and scanner.next that returned,
    \* each with the token returned and whether it called read_next_token
    history,
    \* obj_slice: the sequence (its type and its elements), the arguments
    \* start and end, the object returned, how the call ended ("" before it)
    \* and whether it read outside the sequence
    sl_type, sl_seq, sl_start, sl_end, sl_result, sl_status, sl_outside,
    \* the evaluator: the program visited (an index of Programs); the visits
    \* in progress, innermost last, each with its position in its handler;
    \* the operand stack; the objects allocated so far; the scope levels,
    \* global first and local last; the three flags of visit.c; what was
    \* printed; "run", "done" or the error the process ended with
    prog, control, stack, heap, scope, do_break, do_continue, do_return,
    out, status,
    \* history: the last visit completed, the last method called and the last
    \* binary operator applied
    last, called, applied,
    \* a binary operator of object.c applied to two numbers: the operator,
    \* the operands, what it returned and the code the process exited with
    \* (0 when it did not exit); status is "" before the call
    num,
    \* obj_copy: the objects allocated, the object x copied, its copy y (0
    \* before the copy), the value x had at first, the operation last
    \* applied to the copy and "", "copied" or "mutated"
    cp,
    \* import and parse: the files (each the tokens its text scans to), the
    \* list of loaded modules, the global scanner, the scanners saved by the
    \* calls of parse in progress, "start", "run", "done" or the error the
    \* process ended with, and history: the last import statement and the
    \* state before and after the last parse that returned
    imp,
    \* check(root): the program checked, the calls of check in progress, the
    \* scope levels, the FUNCTION_CALL nodes whose checked flag is set, the
    \* calls that had the body of their function checked, in order, the
    \* number of levels appended and removed, and "run", "done" or the error
    \* the process ended with
    chk,
    \* the parser of expressions: the tokens of the expression, the node
    \* parsed from them and "start", "done" or the error raised
    prs,
    \* history of the character reader of module.c, whose state is code, pos,
    \* bol and lineno: the last operation, the character it returned, pos and
    \* lineno before the last nextch, and whether the assert of pushch holds
    mdl,
    \* a list of list.c: the list nodes allocated, each with its value, its
    \* next and prev and whether it was freed; head and tail of the list;
    \* the operation last applied and "run" or the error raised
    lst,
    \* a character literal on its way from the scanner to the evaluator: the
    \* string the scanner read and whether it accepted the literal, the
    \* value of the LITERAL node, the value of the CHAR object and "start", "scanned", "created", "checked", "done" or
    \* the error raised
    lit

scanVars == <<code, pos, bol, lineno, token, peeked, at_bol, string,
              indentlevel, indentation, past, scan_status, cur, lines_seen,
              history>>

sliceVars == <<sl_type, sl_seq, sl_start, sl_end, sl_result, sl_status, sl_outside>>

evalVars == <<prog, control, stack, heap, scope, do_break, do_continue,
              do_return, out, status, last, called, applied>>

\* the variables of the models that follow the evaluator
auxVars == <<num, cp, imp, chk, prs, mdl, lst, lit>>

vars == <<scanVars, sliceVars, evalVars, auxVars>>

\* ------------------------------------------------------------------------
\* Characters
\* ------------------------------------------------------------------------
EOF == "EOF"

Digits == {"0", "1", "2", "3", "4", "5", "6", "7", "8", "9"}

Letters ==
    {"a", "b", "c", "d", "e", "f", "g", "h", "i", "j", "k", "l", "m",
     "n", "o", "p", "q", "r", "s", "t", "u", "v", "w", "x", "y", "z",
     "A", "B", "C", "D", "E", "F", "G", "H", "I", "J", "K", "L", "M",
     "N", "O", "P", "Q", "R", "S", "T", "U", "V", "W", "X", "Y", "Z"}

isdigit(ch) == ch \in Digits

isalpha(ch) == ch \in Letters

isalnum(ch) == ch \in Letters \cup Digits

\* ------------------------------------------------------------------------
\* module.c: the character reader.  m is [pos, bol, lineno].
\* ------------------------------------------------------------------------
nextch(m) ==
    IF m.pos >= Len(code)
    THEN [ch |-> EOF, m |-> m]
    ELSE [ch |-> code[m.pos + 1],
          m  |-> IF m.pos > 0 /\ code[m.pos] = "\n"
                 THEN [pos |-> m.pos + 1, bol |-> m.pos, lineno |-> m.lineno + 1]
                 ELSE [m EXCEPT !.pos = m.pos + 1]]

peekch(m) == IF m.pos >= Len(code) THEN EOF ELSE code[m.pos + 1]

\* the assert of pushch holds at every call of the scanner: the character
\* pushed back is the one just read
pushch(m, ch) ==
    IF m.pos > 0
    THEN [m EXCEPT !.pos = m.pos - 1,
                   !.lineno = IF m.pos - 1 > 0 /\ code[m.pos - 1] = "\n"
                              THEN m.lineno - 1 ELSE m.lineno]
    ELSE m

\* module.c load: the file's bytes followed by a newline
load(file) == Append(file, "\n")

\* ------------------------------------------------------------------------
\* scanner.c: the token readers.  Each returns [m, tok, str, status].
\* ------------------------------------------------------------------------
\* if (count < bufsize) buffer[count++] = ch
put(buf, ch) == IF Len(buf) < BUFSIZE THEN Append(buf, ch) ELSE buf

\* the character an escape sequence stands for; "" when it is none
escape(ch) ==
    CASE ch = "0"  -> "NUL"
      [] ch = "a"  -> "BEL"
      [] ch = "b"  -> "BS"
      [] ch = "f"  -> "FF"
      [] ch = "n"  -> "\n"
      [] ch = "r"  -> "\r"
      [] ch = "t"  -> "\t"
      [] ch = "v"  -> "VT"
      [] ch = "\\" -> "\\"
      [] ch = "'"  -> "'"
      [] ch = "\"" -> "\""
      [] OTHER     -> ""

RECURSIVE string_loop(_, _)
string_loop(m, buf) ==
    LET r == nextch(m) IN
    IF r.ch # EOF /\ r.ch # "\""
    THEN IF r.ch = "\\" /\ escape(peekch(r.m)) # ""
         THEN string_loop(nextch(r.m).m, put(buf, escape(peekch(r.m))))
         ELSE string_loop(r.m, put(buf, r.ch))
    ELSE [m |-> r.m, tok |-> "STR", str |-> buf, status |-> "run"]

read_string(m) == string_loop(m, <<>>)

RECURSIVE digits_loop(_, _, _)
digits_loop(m, ch, buf) ==
    IF ch # EOF /\ isdigit(ch)
    THEN LET r == nextch(m) IN digits_loop(r.m, r.ch, put(buf, ch))
    ELSE [m |-> m, ch |-> ch, buf |-> buf]

\* the scientific notation part of read_number; ch is 'e' or 'E'
exponent(m, ch, buf) ==
    LET r1 == nextch(m)
        sg == r1.ch \in {"-", "+"}
        r2 == IF sg THEN nextch(r1.m) ELSE r1
        b2 == IF sg THEN put(put(buf, ch), r1.ch) ELSE put(buf, ch)
        d  == digits_loop(r2.m, r2.ch, b2)
    IN  IF ~isdigit(r2.ch)
        THEN [m |-> r2.m, tok |-> "FLOAT", str |-> b2, status |-> "ValueError"]
        ELSE [m |-> pushch(d.m, d.ch), tok |-> "FLOAT", str |-> d.buf,
              status |-> "run"]

RECURSIVE number_loop(_, _, _)
number_loop(m, dot, buf) ==
    LET r == nextch(m) IN
    IF r.ch # EOF /\ (isdigit(r.ch) \/ r.ch = ".")
    THEN IF r.ch = "." /\ dot + 1 > 1
         THEN [m |-> r.m, tok |-> "FLOAT", str |-> buf, status |-> "ValueError"]
         ELSE number_loop(r.m, IF r.ch = "." THEN dot + 1 ELSE dot, put(buf, r.ch))
    ELSE IF r.ch \in {"e", "E"}
         THEN exponent(r.m, r.ch, buf)
         ELSE [m |-> pushch(r.m, r.ch), tok |-> IF dot = 1 THEN "FLOAT" ELSE "INT",
               str |-> buf, status |-> "run"]

read_number(m) == number_loop(m, 0, <<>>)

\* sorted alphabetically, so the binary search of read_identifier finds a
\* name exactly when it is in the table
keywordTable ==
    {[keyword |-> <<"a", "n", "d">>, token |-> "AND"],
     [keyword |-> <<"b", "r", "e", "a", "k">>, token |-> "BREAK"],
     [keyword |-> <<"c", "h", "a", "r">>, token |-> "DEFCHAR"],
     [keyword |-> <<"c", "o", "n", "t", "i", "n", "u", "e">>, token |-> "CONTINUE"],
     [keyword |-> <<"d", "e", "f">>, token |-> "DEFFUNC"],
     [keyword |-> <<"d", "o">>, token |-> "DO"],
     [keyword |-> <<"e", "l", "s", "e">>, token |-> "ELSE"],
     [keyword |-> <<"f", "l", "o", "a", "t">>, token |-> "DEFFLOAT"],
     [keyword |-> <<"f", "o", "r">>, token |-> "FOR"],
     [keyword |-> <<"i", "f">>, token |-> "IF"],
     [keyword |-> <<"i", "m", "p", "o", "r", "t">>, token |-> "IMPORT"],
     [keyword |-> <<"i", "n">>, token |-> "IN"],
     [keyword |-> <<"i", "n", "p", "u", "t">>, token |-> "INPUT"],
     [keyword |-> <<"i", "n", "t">>, token |-> "DEFINT"],
     [keyword |-> <<"l", "i", "s", "t">>, token |-> "DEFLIST"],
     [keyword |-> <<"o", "r">>, token |-> "OR"],
     [keyword |-> <<"p", "a", "s", "s">>, token |-> "PASS"],
     [keyword |-> <<"p", "r", "i", "n", "t">>, token |-> "PRINT"],
     [keyword |-> <<"r", "e", "t", "u", "r", "n">>, token |-> "RETURN"],
     [keyword |-> <<"s", "t", "r">>, token |-> "DEFSTR"],
     [keyword |-> <<"w", "h", "i", "l", "e">>, token |-> "WHILE"]}

RECURSIVE identifier_loop(_, _)
identifier_loop(m, buf) ==
    LET r == nextch(m) IN
    IF r.ch # EOF /\ (isalnum(r.ch) \/ r.ch = "_")
    THEN identifier_loop(r.m, put(buf, r.ch))
    ELSE [m |-> pushch(r.m, r.ch), buf |-> buf]

read_identifier(m) ==
    LET r  == identifier_loop(m, <<>>)
        kw == {k \in keywordTable : k.keyword = r.buf}
    IN  IF kw # {}
        THEN [m |-> r.m, tok |-> (CHOOSE k \in kw : TRUE).token, str |-> <<>>,
              status |-> "run"]
        ELSE [m |-> r.m, tok |-> "IDENTIFIER", str |-> r.buf, status |-> "run"]

read_character(m) ==
    LET r1 == nextch(m)
        r2 == IF r1.ch = "\\" THEN nextch(r1.m) ELSE r1
        c  == IF r1.ch = "\\" THEN escape(r2.ch) ELSE r1.ch
        r3 == nextch(r2.m)
    IN  IF r1.ch = "\\" /\ c = ""
        THEN [m |-> r2.m, tok |-> "CHAR", str |-> <<>>, status |-> "SyntaxError"]
        ELSE IF r1.ch # "\\" /\ r1.ch \in {"'", EOF}
        THEN [m |-> r1.m, tok |-> "CHAR", str |-> <<>>, status |-> "SyntaxError"]
        ELSE IF r3.ch # "'"
        THEN [m |-> r3.m, tok |-> "CHAR", str |-> <<c>>, status |-> "SyntaxError"]
        ELSE [m |-> r3.m, tok |-> "CHAR", str |-> <<c>>, status |-> "run"]

\* the switch of read_next_token on a character that starts no number and
\* no name
single(m, tok) == [m |-> m, tok |-> tok, str |-> <<>>, status |-> "run"]

with_equal(m, tok, tokeq) ==
    IF peekch(m) = "=" THEN single(nextch(m).m, tokeq) ELSE single(m, tok)

punctuation(m, ch) ==
    CASE ch = "'"  -> read_character(m)
      [] ch = "\"" -> read_string(m)
      [] ch = "("  -> single(m, "LPAR")
      [] ch = ")"  -> single(m, "RPAR")
      [] ch = "["  -> single(m, "LSQB")
      [] ch = "]"  -> single(m, "RSQB")
      [] ch = ","  -> single(m, "COMMA")
      [] ch = "."  -> single(m, "DOT")
      [] ch = ":"  -> single(m, "COLON")
      [] ch = "*"  -> with_equal(m, "STAR", "STAREQUAL")
      [] ch = "%"  -> with_equal(m, "PERCENT", "PERCENTEQUAL")
      [] ch = "+"  -> with_equal(m, "PLUS", "PLUSEQUAL")
      [] ch = "-"  -> with_equal(m, "MINUS", "MINUSEQUAL")
      [] ch = "/"  -> with_equal(m, "SLASH", "SLASHEQUAL")
      [] ch = "!"  -> with_equal(m, "NOT", "NOTEQUAL")
      [] ch = "="  -> with_equal(m, "EQUAL", "EQEQUAL")
      [] ch = "<"  -> IF peekch(m) = ">" THEN single(nextch(m).m, "NOTEQUAL")
                      ELSE with_equal(m, "LESS", "LESSEQUAL")
      [] ch = ">"  -> with_equal(m, "GREATER", "GREATEREQUAL")
      [] OTHER     -> single(m, "UNKNOWN")

\* a character read, with the reader after it and the column counted so far
advance(a) ==
    LET r == nextch(a.m) IN [m |-> r.m, ch |-> r.ch, col |-> a.col]

RECURSIVE skip_spaces(_)
skip_spaces(m) ==
    LET r == nextch(m) IN
    IF r.ch \in {" ", "\t"} THEN skip_spaces(r.m)
    ELSE [m |-> r.m, ch |-> r.ch, col |-> 0]

\* if (ch == '#') while (ch != '\n' && ch != EOF) ch = nextch()
RECURSIVE skip_comment(_)
skip_comment(a) ==
    IF a.ch # "\n" /\ a.ch # EOF THEN skip_comment(advance(a)) ELSE a

after_comment(a) == IF a.ch = "#" THEN skip_comment(a) ELSE a

\* if (ch == '\r') ch = nextch()
after_cr(b) == IF b.ch = "\r" THEN advance(b) ELSE b

\* the token that starts with the character c.ch
token_at(c) ==
    IF c.ch = "\n" THEN single(c.m, "NEWLINE")
    ELSE IF c.ch = EOF THEN single(c.m, "ENDMARKER")
    ELSE IF isdigit(c.ch) THEN read_number(pushch(c.m, c.ch))
    ELSE IF isalpha(c.ch) THEN read_identifier(pushch(c.m, c.ch))
    ELSE punctuation(c.m, c.ch)

\* read_next_token from "skip spaces" on
read_token(m) == token_at(after_cr(after_comment(skip_spaces(m))))

\* the column of the first character of a line that is no space and no tab
RECURSIVE scan_col(_, _)
scan_col(m, col) ==
    LET r == nextch(m) IN
    IF r.ch = " " THEN scan_col(r.m, col + 1)
    ELSE IF r.ch = "\t" THEN scan_col(r.m, ((col \div TABSIZE) + 1) * TABSIZE)
    ELSE [m |-> r.m, ch |-> r.ch, col |-> col]

\* scanner.indentation[i]; i = MAXINDENT is the word after the array
indentation_at(ind, pst, i) == IF i < MAXINDENT THEN ind[i] ELSE pst

\* what the indentation loop leaves: the reader, the stack, the token it
\* returns ("" after a break), the column and whether the file has ended
left(m, lvl, ind, pst, bl, ret, err, col, eof) ==
    [m |-> m, lvl |-> lvl, ind |-> ind, pst |-> pst, at_bol |-> bl, ret |-> ret,
     status |-> err, col |-> col, eof |-> eof]

\* col > indentation[indentlevel]: the guard of the push
max_indent_reached(lvl) == lvl = MAXINDENT

\* col < indentation[indentlevel]: one level down; a column that is not the
\* one of that level has the line read again
dedent(m, lvl, ind, pst, col, eof) ==
    IF lvl - 1 < 0
    THEN left(m, lvl - 1, ind, pst, FALSE, "DEDENT", "SyntaxError", col, eof)
    ELSE IF col # indentation_at(ind, pst, lvl - 1)
    THEN left([m EXCEPT !.pos = m.bol], lvl - 1, ind, pst, TRUE, "DEDENT", "run",
              col, eof)
    ELSE left(m, lvl - 1, ind, pst, FALSE, "DEDENT", "run", col, eof)

\* scanner.indentation[++scanner.indentlevel] = col.  The array has MAXINDENT
\* elements: the write at index MAXINDENT lands on the word after it.
indent(m, lvl, ind, pst, col) ==
    IF max_indent_reached(lvl)
    THEN left(m, lvl, ind, pst, FALSE, "INDENT", "SyntaxError", col, FALSE)
    ELSE IF lvl + 1 < MAXINDENT
    THEN left(m, lvl + 1, [ind EXCEPT ![lvl + 1] = col], pst, FALSE, "INDENT",
              "run", col, FALSE)
    ELSE left(m, lvl + 1, ind, col, FALSE, "INDENT", "run", col, FALSE)

\* the comparison of the column with the top of the stack
compare(m, lvl, ind, pst, col, eof) ==
    IF eof /\ col = indentation_at(ind, pst, lvl)
    THEN left(m, lvl, ind, pst, FALSE, "ENDMARKER", "run", col, TRUE)
    ELSE IF col = indentation_at(ind, pst, lvl)
    THEN left(m, lvl, ind, pst, FALSE, "", "run", col, FALSE)
    ELSE IF col > indentation_at(ind, pst, lvl)
    THEN indent(m, lvl, ind, pst, col)
    ELSE dedent(m, lvl, ind, pst, col, eof)

\* the loop while (scanner.at_bol == true) of read_next_token; c is the
\* first character of the line after its indentation
RECURSIVE indent_loop(_, _, _, _)
line_start(c, lvl, ind, pst) ==
    IF c.ch = "\n" THEN indent_loop(c.m, lvl, ind, pst)
    ELSE IF c.ch = EOF THEN compare(c.m, lvl, ind, pst, 0, TRUE)
    ELSE compare(pushch(c.m, c.ch), lvl, ind, pst, c.col, FALSE)

indent_loop(m, lvl, ind, pst) ==
    line_start(after_cr(after_comment(scan_col(m, 0))), lvl, ind, pst)

\* the result of read_next_token: i is what the indentation loop left, t the
\* token read after it.  scanned says that the loop ran, lpos where it left
\* the reader.
returned(i, scanned) ==
    [m |-> i.m, lvl |-> i.lvl, ind |-> i.ind, pst |-> i.pst, at_bol |-> i.at_bol,
     tok |-> i.ret, str |-> <<>>, status |-> i.status, scanned |-> scanned,
     col |-> i.col, eof |-> i.eof, lpos |-> i.m.pos]

token_read(i, t, scanned) ==
    [m |-> t.m, lvl |-> i.lvl, ind |-> i.ind, pst |-> i.pst,
     at_bol |-> (t.tok = "NEWLINE"), tok |-> t.tok, str |-> t.str,
     status |-> t.status, scanned |-> scanned, col |-> i.col, eof |-> FALSE,
     lpos |-> i.m.pos]

after_indent(i, scanned) ==
    IF i.ret # "" THEN returned(i, scanned)
    ELSE token_read(i, read_token(i.m), scanned)

read_next_token ==
    IF at_bol
    THEN after_indent(indent_loop([pos |-> pos, bol |-> bol, lineno |-> lineno],
                                  indentlevel, indentation, past.word), TRUE)
    ELSE after_indent(left([pos |-> pos, bol |-> bol, lineno |-> lineno],
                           indentlevel, indentation, past.word, FALSE, "", "run",
                           0, FALSE), FALSE)

\* ------------------------------------------------------------------------
\* History kept beside the scanner's state
\* ------------------------------------------------------------------------
\* the number of the line (from 0) that holds the character at position p
LineOf(p) == Cardinality({k \in 1..p : code[k] = "\n"})

\* the indentation stack: indentation[0 .. indentlevel]
Stack == [k \in 1..(indentlevel + 1) |-> indentation_at(indentation, past.word, k - 1)]

\* the line a result r of read_next_token is about; -1 for the end of file
LineAt(r) == IF r.eof THEN 0 - 1 ELSE LineOf(r.lpos)

\* r begins a line: the indentation loop ran on another line than before
Fresh(r) == r.scanned /\ (r.eof # cur.eof \/ (~r.eof /\ LineAt(r) # cur.line))

Read_toks(r) == IF r.status = "run" THEN <<r.tok>> ELSE <<>>

Record(r) ==
    IF Fresh(r)
    THEN [line |-> LineAt(r), col |-> r.col, eof |-> r.eof, stack0 |-> Stack,
          toks |-> Read_toks(r), again |-> LineAt(r) \in lines_seen]
    ELSE [cur EXCEPT !.toks = @ \o Read_toks(r)]

\* ------------------------------------------------------------------------
\* The scanner's operations
\* ------------------------------------------------------------------------
\* the history with a call that returned tok
scanner_returned(h, op, tok, read) ==
    IF Len(h) < MaxHistory THEN Append(h, [op |-> op, tok |-> tok, read |-> read])
    ELSE Append(Tail(h), [op |-> op, tok |-> tok, read |-> read])

\* the write of indentation[MAXINDENT], which is past the array's end
WritesPast(r) == indentlevel < MAXINDENT /\ r.lvl = MAXINDENT

\* the call of read_next_token by next_token or peek_token, its result r
\* going to scanner.token or to scanner.peeked.  A write past the end of
\* indentation[] is undefined behaviour: the process goes on with the word
\* after the array overwritten, or it ends there.
Store(r, to_token) ==
    /\ pos' = r.m.pos
    /\ bol' = r.m.bol
    /\ lineno' = r.m.lineno
    /\ at_bol' = r.at_bol
    /\ string' = r.str
    /\ indentlevel' = r.lvl
    /\ indentation' = r.ind
    /\ past' = [intact |-> past.intact /\ ~WritesPast(r), word |-> r.pst]
    /\ cur' = Record(r)
    /\ lines_seen' = IF r.scanned /\ ~r.eof THEN lines_seen \cup {LineAt(r)}
                      ELSE lines_seen
    /\ token' = IF to_token /\ r.status = "run" THEN r.tok ELSE token
    /\ peeked' = IF ~to_token /\ r.status = "run" THEN r.tok ELSE peeked
    /\ scan_status' \in IF WritesPast(r) THEN {"run", "crash"} ELSE {r.status}
    /\ history' = IF r.status # "run" THEN history
                  ELSE scanner_returned(history, IF to_token THEN "next" ELSE "peek", r.tok, TRUE)
    /\ UNCHANGED code
    /\ UNCHANGED <<sliceVars, evalVars, auxVars>>

Read(to_token) == Store(read_next_token, to_token)

Scanning == scan_status = "run" /\ token # "ENDMARKER" /\ lineno <= MaxLineno

\* scanner.next(): the call goes through the pointer that follows the array
next_token ==
    /\ Scanning
    /\ IF ~past.intact
       THEN /\ scan_status' = "crash"
            /\ UNCHANGED <<code, pos, bol, lineno, token, peeked, at_bol, string,
                           indentlevel, indentation, past, cur, lines_seen,
                           history>>
            /\ UNCHANGED <<sliceVars, evalVars, auxVars>>
       ELSE IF peeked = "UNKNOWN"
       THEN Read(TRUE)
       ELSE /\ token' = peeked
            /\ peeked' = "UNKNOWN"
            /\ history' = scanner_returned(history, "next", peeked, FALSE)
            /\ UNCHANGED <<code, pos, bol, lineno, at_bol, string, indentlevel,
                           indentation, past, scan_status, cur, lines_seen>>
            /\ UNCHANGED <<sliceVars, evalVars, auxVars>>

\* scanner.peek()
peek_token ==
    /\ Scanning
    /\ IF peeked = "UNKNOWN"
       THEN Read(FALSE)
       ELSE /\ history' = scanner_returned(history, "peek", peeked, FALSE)
            /\ UNCHANGED <<code, pos, bol, lineno, token, peeked, at_bol, string,
                           indentlevel, indentation, past, scan_status, cur, lines_seen>>
            /\ UNCHANGED <<sliceVars, evalVars, auxVars>>

\* ------------------------------------------------------------------------
\* The source files scanned
\* ------------------------------------------------------------------------
LineKinds ==
    {<<"x">>, <<" ", "x">>, <<" ", " ", "x">>, <<"\t", "x">>, <<>>,
     <<" ", "#", "c">>}

RECURSIVE Join(_, _)
Join(ls, nl) ==
    IF Len(ls) = 0 THEN <<>>
    ELSE IF Len(ls) = 1 THEN (IF nl THEN Append(ls[1], "\n") ELSE ls[1])
    ELSE Append(ls[1], "\n") \o Join(Tail(ls), nl)

Generated ==
    {Join(ls, nl) : ls \in UNION {[1..n -> LineKinds] : n \in 1..MaxLines},
                    nl \in BOOLEAN}

Tokens ==
    {<<"i", "f", " ", "a", "1", "<", "=", "1", ".", "5", "e", "+", "2", ":", "\n",
       " ", "p", "r", "i", "n", "t", " ", "'", "\\", "n", "'", ",", "\"", "s",
       "\\", "t", "\"", "\r", "\n">>,
     <<"x", "[", "1", ":", "]", ".", "f", "(", ")", "<", ">", "-", "=", "$", "\n">>,
     <<"1", ".", "2", ".", "3">>,
     <<"'", "a", "b", "'">>,
     <<"1", "e", "x">>}

\* line i of the deep file: column i, made of tabs and spaces, then an x
DeepLine(i) ==
    [k \in 1..(i \div TABSIZE) |-> "\t"] \o [k \in 1..(i % TABSIZE) |-> " "]
        \o <<"x", "\n">>

RECURSIVE DeepLines(_, _)
DeepLines(lo, hi) ==
    IF lo = hi THEN DeepLine(lo)
    ELSE DeepLines(lo, (lo + hi) \div 2) \o DeepLines((lo + hi) \div 2 + 1, hi)

\* a file of MAXINDENT + 2 lines, each one column deeper than the one before
Deep == DeepLines(0, MAXINDENT + 1)

\* three lines, each deeper than the one before, and a fourth at the column
\* of the first
Dedented == Join(<<<<" ", "x">>, <<" ", " ", "x">>, <<"\t", "x">>, <<" ", "y">>>>, TRUE)

Files == Generated \cup Tokens \cup {Deep, Dedented}

\* the scanner after scanner_init on a module just loaded
ScannerInit ==
    /\ pos = 0
    /\ bol = 0
    /\ lineno = 1
    /\ token = "UNKNOWN"
    /\ peeked = "UNKNOWN"
    /\ at_bol = TRUE
    /\ string = <<>>
    /\ indentlevel = 0
    /\ indentation = [i \in 0..(MAXINDENT - 1) |-> 0]
    /\ past = [intact |-> TRUE, word |-> 0]
    /\ scan_status = "run"
    /\ cur = [line |-> 0 - 1, col |-> 0, eof |-> FALSE, stack0 |-> <<0>>,
              toks |-> <<>>, again |-> FALSE]
    /\ lines_seen = {}
    /\ history = <<>>

\* no slice is being taken
SliceIdle ==
    /\ sl_type = "NONE"
    /\ sl_seq = <<>>
    /\ sl_start = 0
    /\ sl_end = 0
    /\ sl_result = <<>>
    /\ sl_status = ""
    /\ sl_outside = FALSE

\* a value: the type and the content of an object, a list's elements in elems
Val(type, ival, sval, elems) ==
    [type |-> type, ival |-> ival, sval |-> sval, elems |-> elems]

\* history before anything was visited, called or applied
NoVisit ==
    [type |-> "", operator |-> "", d0 |-> 0, d1 |-> 0, returns |-> FALSE,
     top |-> 0, ret |-> 0, val |-> 0, late |-> FALSE]

NoCall ==
    [name |-> "", arguments |-> <<>>, before |-> Val("", 0, <<>>, <<>>),
     after |-> Val("", 0, <<>>, <<>>)]

NoApply ==
    [operator |-> "", left |-> Val("", 0, <<>>, <<>>),
     right |-> Val("", 0, <<>>, <<>>),
     result |-> [status |-> "", null |-> TRUE, val |-> Val("", 0, <<>>, <<>>)]]

\* nothing is being evaluated
EvalIdle ==
    /\ prog = <<>>
    /\ control = <<>>
    /\ stack = <<>>
    /\ heap = <<>>
    /\ scope = <<>>
    /\ do_break = 0
    /\ do_continue = 0
    /\ do_return = 0
    /\ out = <<>>
    /\ status = ""
    /\ last = NoVisit
    /\ called = NoCall
    /\ applied = NoApply

\* no operator is being applied to two numbers
NoNumber ==
    [operator |-> "", op1 |-> Val("", 0, <<>>, <<>>), op2 |-> Val("", 0, <<>>, <<>>),
     result |-> [status |-> "", null |-> TRUE, val |-> Val("", 0, <<>>, <<>>)],
     exit |-> 0, status |-> ""]

NumberIdle == num = NoNumber

\* nothing is being copied
CopyIdle ==
    cp = [heap |-> <<>>, x |-> 0, y |-> 0, value |-> Val("", 0, <<>>, <<>>),
          operation |-> "", status |-> ""]

\* nothing is being imported
ImportIdle == imp = <<>>

\* nothing is being checked
CheckIdle == chk = <<>>

\* the models that follow the evaluator are idle
\* no expression is being parsed, no character read outside the scanner, no
\* list built
ParseIdle == prs = <<>>
ModuleIdle == mdl = <<>>
ListIdle == lst = <<>>
LiteralIdle == lit = <<>>

LateIdle == ParseIdle /\ ModuleIdle /\ ListIdle /\ LiteralIdle

AuxIdle == NumberIdle /\ CopyIdle /\ ImportIdle /\ CheckIdle /\ LateIdle

InitScan ==
    /\ code \in {load(f) : f \in Files}
    /\ ScannerInit
    /\ SliceIdle
    /\ EvalIdle
    /\ AuxIdle

NextScan == next_token \/ peek_token

SpecScan == InitScan /\ [][NextScan]_vars

\* ------------------------------------------------------------------------
\* The indentation protocol
\* ------------------------------------------------------------------------
\* a line of the file is being scanned (not the end of the file)
OnLine == cur.line >= 0 /\ ~cur.eof

Top0 == cur.stack0[Len(cur.stack0)]

\* the column of the line is the one stacked k levels below the top
StackedBelow(k) == cur.col = cur.stack0[Len(cur.stack0) - k]

Stacked == \E n \in 1..Len(cur.stack0) : cur.col = cur.stack0[n]

IndentTokens == {"INDENT", "DEDENT"}

\* the top of the indentation stack is the column of the line
TopIsCol == indentlevel < MAXINDENT /\ indentation[indentlevel] = cur.col

\* the first k tokens of the line are DEDENT, the next one is the line's
\* first token, and the stack then ends k levels lower, at the line's column
DedentsThenToken(k) ==
    /\ \A n \in 1..Len(cur.toks) : n <= k => cur.toks[n] = "DEDENT"
    /\ Len(cur.toks) < k => scan_status = "run"
    /\ Len(cur.toks) > k =>
           /\ cur.toks[k + 1] \notin IndentTokens
           /\ TopIsCol
           /\ indentlevel = Len(cur.stack0) - 1 - k

\* the line has one INDENT, read when it was first scanned, then its first
\* token, and the stack ends one level higher, at the line's column
OneIndent ==
    /\ ~cur.again
    /\ Len(cur.toks) >= 1 =>
           /\ cur.toks[1] = "INDENT"
           /\ TopIsCol
           /\ indentlevel = Len(cur.stack0)
    /\ Len(cur.toks) >= 2 => cur.toks[2] \notin IndentTokens

\* C6: a line whose column is the one stacked k >= 1 levels below the top
\* gets exactly k DEDENT tokens and then its first token; a line whose column
\* is greater than the top gets exactly one INDENT; afterwards the top of the
\* stack is the line's column.
C6_IndentDedent ==
    OnLine =>
        /\ \A k \in 1..(Len(cur.stack0) - 1) : StackedBelow(k) => DedentsThenToken(k)
        /\ cur.col > Top0 => OneIndent

\* C6: a line two levels below the top has had its two DEDENT tokens and its
\* first token
C6_TwoDedentsRead ==
    /\ OnLine
    /\ Len(cur.stack0) >= 3
    /\ StackedBelow(2)
    /\ cur.toks = <<"DEDENT", "DEDENT", "IDENTIFIER">>

\* C7: a line whose column is smaller than the top of the stack and is none
\* of the stacked columns fails with SyntaxError, and no token is read for
\* it.
C7_InconsistentIndent ==
    (OnLine /\ cur.col < Top0 /\ ~Stacked) =>
        (scan_status = "SyntaxError" /\ cur.toks = <<>>)

\* C7: such a line has been scanned
C7_InconsistentLine == OnLine /\ cur.col < Top0 /\ ~Stacked

\* C8: indentlevel is never negative and always an index of the array
\* indentation[MAXINDENT], and nothing is written past the array's end.
C8_IndentLevelInArray ==
    /\ indentlevel >= 0
    /\ indentlevel <= MAXINDENT - 1
    /\ past.intact

\* C8: the scanner is at the last element of the array
C8_LastLevel == indentlevel = MAXINDENT - 1

\* ------------------------------------------------------------------------
\* Slices: str.c str_slice over strndup.c, list.c list_slice
\* ------------------------------------------------------------------------
\* the four adjustments both slice functions make to start and end
from_end(index, len) == IF index < 0 THEN index + len ELSE index

adjust_start(start, len) == IF from_end(start, len) < 0 THEN 0 ELSE from_end(start, len)

adjust_end(end, len) == IF from_end(end, len) >= len THEN len ELSE from_end(end, len)

\* strndup(s, n) on the string that starts rest characters before its end:
\* the number of characters copied.  n is a size_t: a negative int_t arrives
\* as a value of at least 2^63, which is more than any strlen.
strndup(rest, n) == IF n >= 0 /\ n < rest THEN n ELSE rest

\* str_slice: strndup(obj->sptr + start, end - start).  A start beyond the
\* terminating 0 of the string makes strndup read outside the buffer.
str_slice(str, start, end) ==
    IF start > Len(str)
    THEN [val |-> <<>>, outside |-> TRUE, status |-> "done"]
    ELSE [val |-> SubSeq(str, start + 1, start + strndup(Len(str) - start, end - start)),
          outside |-> FALSE, status |-> "done"]

\* list_item: the element at index, IndexError when there is none
list_item(list, index) ==
    IF from_end(index, Len(list)) < 0 \/ from_end(index, Len(list)) >= Len(list)
    THEN [val |-> <<>>, status |-> "IndexError"]
    ELSE [val |-> <<list[from_end(index, Len(list)) + 1]>>, status |-> "done"]

\* the loop of list_slice: for (i = start; i < end; i++) append a copy of
\* item(list, i)
RECURSIVE list_slice_loop(_, _, _, _)
list_slice_item(list, i, end, slice, item) ==
    IF item.status # "done"
    THEN [val |-> slice, outside |-> TRUE, status |-> item.status]
    ELSE list_slice_loop(list, i + 1, end, slice \o item.val)

list_slice_loop(list, i, end, slice) ==
    IF i < end
    THEN list_slice_item(list, i, end, slice, list_item(list, i))
    ELSE [val |-> slice, outside |-> FALSE, status |-> "done"]

list_slice(list, start, end) == list_slice_loop(list, start, end, <<>>)

\* object.c obj_slice, with start and end adjusted by the type's function
slice_of(type, seq, start, end) ==
    IF type = "STR"
    THEN str_slice(seq, adjust_start(start, Len(seq)), adjust_end(end, Len(seq)))
    ELSE list_slice(seq, adjust_start(start, Len(seq)), adjust_end(end, Len(seq)))

\* what a read outside the buffer can bring: the process ends, or bytes of
\* whatever follows the buffer are taken for characters
Garbage == {<<>>, <<"?">>, <<"?", "?">>}

sliced(r) ==
    /\ sl_outside' = r.outside
    /\ sl_result' \in IF r.outside /\ r.status = "done" THEN Garbage ELSE {r.val}
    /\ sl_status' \in IF r.outside /\ r.status = "done" THEN {"done", "crash"}
                      ELSE {r.status}

obj_slice ==
    /\ sl_status = ""
    /\ sl_type \in {"STR", "LIST"}
    /\ sliced(slice_of(sl_type, sl_seq, sl_start, sl_end))
    /\ UNCHANGED <<sl_type, sl_seq, sl_start, sl_end>>
    /\ UNCHANGED <<scanVars, evalVars, auxVars>>

\* the scanner is not in use
ScanIdle ==
    /\ code = <<>>
    /\ ScannerInit

Elements == {"a", "b"}

InitSlice ==
    /\ sl_type \in {"STR", "LIST"}
    /\ sl_seq \in UNION {[1..n -> Elements] : n \in 0..MaxLen}
    /\ sl_start \in (0 - MaxIndex)..MaxIndex
    /\ sl_end \in (0 - MaxIndex)..MaxIndex
    /\ sl_result = <<>>
    /\ sl_status = ""
    /\ sl_outside = FALSE
    /\ ScanIdle
    /\ EvalIdle
    /\ AuxIdle

NextSlice == obj_slice

SpecSlice == InitSlice /\ [][NextSlice]_vars

\* an index as the specification normalises it: a negative one counts from
\* the end, and the result is clamped to 0 .. len
Normal(n, len) ==
    IF n < 0 THEN (IF n + len < 0 THEN 0 ELSE n + len)
    ELSE IF n > len THEN len ELSE n

\* the elements of seq at the positions from Normal(n) up to Normal(m)
Between(seq, n, m) ==
    IF Normal(n, Len(seq)) >= Normal(m, Len(seq)) THEN <<>>
    ELSE SubSeq(seq, Normal(n, Len(seq)) + 1, Normal(m, Len(seq)))

\* C9: a slice s[n:m] of a string or a list never raises IndexError and never
\* reads outside s; its result is the elements of s from n up to m, both
\* normalised and clamped to 0 .. len, and is empty when n >= m.
C9_SliceClamped ==
    sl_status # "" =>
        /\ sl_status = "done"
        /\ ~sl_outside
        /\ sl_result = Between(sl_seq, sl_start, sl_end)

\* C9: a slice has been taken whose start is not before its end
C9_EmptySliceTaken ==
    /\ sl_status = "done"
    /\ Len(sl_seq) > 0
    /\ Normal(sl_start, Len(sl_seq)) >= Normal(sl_end, Len(sl_seq))

\* ------------------------------------------------------------------------
\* The evaluator: visit.c over object.c, number.c, str.c, list.c,
\* identifier.c and stack.c
\* ------------------------------------------------------------------------
\* An AST node (ast.h struct node).  kids are the nodes the handler visits, in
\* the order of the struct's members; val is literal.value, or the names of a
\* function's arguments; method and arguments are the .method(...) suffix,
\* whose arguments stay AST nodes.
Node(type, name, operator, val, kids) ==
    [type |-> type, name |-> name, operator |-> operator, val |-> val,
     kids |-> kids, method |-> "", arguments |-> <<>>]

IntLiteral(digits) == Node("LITERAL", "VT_INT", "", digits, <<>>)
CharLiteral(c) == Node("LITERAL", "VT_CHAR", "", c, <<>>)
StrLiteral(chars) == Node("LITERAL", "VT_STR", "", chars, <<>>)
Binary(operator, l, r) == Node("BINARY", "", operator, <<>>, <<l, r>>)
Arglist(arguments) == Node("ARGLIST", "", "", <<>>, arguments)
Index(sequence, index) == Node("INDEX", "", "", <<>>, <<sequence, index>>)
Assignment(operator, variable, expression) ==
    Node("ASSIGNMENT", "", operator, <<>>, <<variable, expression>>)
Reference(name) == Node("REFERENCE", name, "", <<>>, <<>>)
FunctionCall(name, arguments) == Node("FUNCTION_CALL", name, "", <<>>, arguments)
Method(n, name, arguments) == [n EXCEPT !.method = name, !.arguments = arguments]
Block(statements) == Node("BLOCK", "", "", <<>>, statements)
ExpressionStmnt(e) == Node("EXPRESSION_STMNT", "", "", <<>>, <<e>>)
FunctionDeclaration(name, arguments, statements) ==
    Node("FUNCTION_DECLARATION", name, "", arguments, <<Block(statements)>>)
Defvar(type, name, initialvalue) == Node("DEFVAR", name, type, <<>>, initialvalue)
VariableDeclaration(type, name, initialvalue) ==
    Node("VARIABLE_DECLARATION", "", "", <<>>, <<Defvar(type, name, initialvalue)>>)
IfStmnt(condition, consequent) ==
    Node("IF_STMNT", "", "", <<>>, <<condition, Block(consequent)>>)
WhileStmnt(condition, statements) ==
    Node("WHILE_STMNT", "", "", <<>>, <<condition, Block(statements)>>)
DoStmnt(statements, condition) ==
    Node("DO_STMNT", "", "", <<>>, <<condition, Block(statements)>>)
ForStmnt(name, expression, statements) ==
    Node("FOR_STMNT", name, "", <<>>, <<expression, Block(statements)>>)
PrintStmnt(expressions) == Node("PRINT_STMNT", "", "", <<>>, expressions)
ReturnStmnt(value) == Node("RETURN_STMNT", "", "", <<>>, value)
PassStmnt == Node("PASS_STMNT", "", "", <<>>, <<>>)
BreakStmnt == Node("BREAK_STMNT", "", "", <<>>, <<>>)
ContinueStmnt == Node("CONTINUE_STMNT", "", "", <<>>, <<>>)

Expressions ==
    {"LITERAL", "BINARY", "ARGLIST", "INDEX", "ASSIGNMENT", "REFERENCE", "FUNCTION_CALL"}

Loops == {"WHILE_STMNT", "DO_STMNT", "FOR_STMNT"}

\* ------------------------------------------------------------------------
\* Objects (object.h, number.h, str.h, list.h).  An address is an index of
\* heap, 0 is NULL; memory that was freed keeps its address and is marked.
\* A LIST has its listnodes in items, a LISTNODE its object.
\* ------------------------------------------------------------------------
Object(type, ival, sval, items) ==
    [type |-> type, refcount |-> 0, ival |-> ival, sval |-> sval,
     items |-> items, freed |-> FALSE]

\* none.c: the one none object, at address 1
none == 1

obj_incref(h, obj) == [h EXCEPT ![obj].refcount = @ + 1]

\* free(): the memory is the allocator's again
free(h, obj) == [h EXCEPT ![obj].freed = TRUE]

\* obj_alloc: the new object is the last of the heap, its refcount 1
obj_alloc(h, object) == Append(h, [object EXCEPT !.refcount = 1])

obj_from_listnode(h, obj) ==
    IF h[obj].type = "LISTNODE_T" /\ h[obj].items # <<>> THEN h[obj].items[1] ELSE obj

\* list.c: unlinking the listnode at index of list
unlink(h, list, index) ==
    [h EXCEPT ![list].items = SubSeq(@, 1, index) \o SubSeq(@, index + 2, Len(@))]

RECURSIVE obj_decref(_, _)
listnode_free(h, listnode) ==
    free(IF h[listnode].items = <<>> THEN h ELSE obj_decref(h, h[listnode].items[1]),
         listnode)

\* list_remove_object for an index of the list; the object removed is
\* obj_from_listnode of the listnode
removed(h, listnode, obj) == obj_decref(obj_incref(h, obj), listnode)

list_remove_object(h, list, index) ==
    removed(unlink(h, list, index), h[list].items[index + 1],
            obj_from_listnode(h, h[list].items[index + 1]))

RECURSIVE list_clear(_, _)
list_clear(h, list) ==
    IF h[list].items = <<>> THEN h
    ELSE list_clear(obj_decref(list_remove_object(h, list, 0),
                               obj_from_listnode(h, h[list].items[1])), list)

list_free(h, list) == free(list_clear(h, list), list)

obj_free(h, obj) ==
    IF h[obj].freed \/ h[obj].type = "NONE_T" THEN h
    ELSE IF h[obj].type = "LIST_T" THEN list_free(h, obj)
    ELSE IF h[obj].type = "LISTNODE_T" THEN listnode_free(h, obj)
    ELSE free(h, obj)

obj_decref(h, obj) ==
    IF h[obj].refcount - 1 <= 0
    THEN obj_free([h EXCEPT ![obj].refcount = @ - 1], obj)
    ELSE [h EXCEPT ![obj].refcount = @ - 1]

\* ------------------------------------------------------------------------
\* Values and operators (object.c, number.c, str.c, list.c)
\* ------------------------------------------------------------------------
\* the characters of the programs below, as the numbers a char holds
Ord(c) ==
    CASE c = "a" -> 97 [] c = "b" -> 98 [] c = "c" -> 99
      [] c = "0" -> 48 [] c = "1" -> 49 [] c = "2" -> 50 [] c = "3" -> 51
      [] c = "4" -> 52 [] c = "5" -> 53 [] c = "6" -> 54 [] c = "7" -> 55
      [] c = "8" -> 56 [] c = "9" -> 57 [] c = "\\" -> 92
      [] c = "NUL" -> 0 [] c = "BEL" -> 7 [] c = "BS" -> 8 [] c = "\t" -> 9
      [] c = "\n" -> 10 [] c = "VT" -> 11 [] c = "FF" -> 12 [] c = "\r" -> 13
      [] c = "\"" -> 34 [] c = "'" -> 39 [] OTHER -> 63

\* a value converted to char_t, a signed byte
char_t(i) == ((i + 128) % 256) - 128

\* strtol: the number the leading digits stand for
RECURSIVE strtol(_, _)
strtol(s, i) ==
    IF s # <<>> /\ isdigit(Head(s)) THEN strtol(Tail(s), 10 * i + (Ord(Head(s)) - 48))
    ELSE i

\* a conversion: the error raised, or the number
Converted(error, i) == [status |-> error, ival |-> i]

str_to_int(s) ==
    IF s = <<>> \/ ~isdigit(Head(s)) THEN Converted("ValueError", 0)
    ELSE Converted("run", strtol(s, 0))

str_to_char(s) ==
    IF s = <<>> THEN Converted("SyntaxError", 0)
    ELSE IF Head(s) = "\\" /\ (Len(s) < 2 \/ s[2] \notin {"0", "b", "f", "n", "r", "t", "v", "\\", "'", "\""})
    THEN Converted("ValueError", 0)
    ELSE IF Head(s) = "\\" /\ Len(s) > 2 THEN Converted("SyntaxError", 0)
    ELSE IF Head(s) = "\\"
    THEN Converted("run", CASE s[2] = "0" -> 0 [] s[2] = "b" -> 8 [] s[2] = "f" -> 12
                            [] s[2] = "n" -> 10 [] s[2] = "r" -> 13 [] s[2] = "t" -> 9
                            [] s[2] = "v" -> 11 [] s[2] = "\\" -> 92
                            [] s[2] = "'" -> 39 [] OTHER -> 34)
    ELSE IF Len(s) > 1 THEN Converted("SyntaxError", 0)
    ELSE Converted("run", Ord(Head(s)))

\* the value of the object at obj, a listnode standing for its object
RECURSIVE ValueOf(_, _)
ValueOf(h, obj) ==
    IF h[obj].type = "LISTNODE_T" THEN ValueOf(h, obj_from_listnode(h, obj))
    ELSE Val(h[obj].type, h[obj].ival, h[obj].sval,
             [i \in 1..Len(h[obj].items) |-> ValueOf(h, h[obj].items[i])])

IntVal(i) == Val("INT_T", i, <<>>, <<>>)
CharVal(i) == Val("CHAR_T", i, <<>>, <<>>)

\* a FLOAT holds a multiple of one half: ival is twice its value
FloatVal(halves) == Val("FLOAT_T", halves, <<>>, <<>>)

\* the FLOAT that is not a number (inf - inf, or "nan" read by strtod), and
\* the isnan of math.h
NaN == Val("FLOAT_T", 0, <<"n", "a", "n">>, <<>>)
isnan(v) == v.type = "FLOAT_T" /\ v.sval # <<>>

\* a float_t converted to an integer type: the fraction is discarded
truncated(halves) == IF halves >= 0 THEN halves \div 2 ELSE -((-halves) \div 2)

isNumber(v) == v.type \in {"CHAR_T", "INT_T", "FLOAT_T"}
isSequence(v) == v.type \in {"LIST_T", "STR_T"}

obj_as_int(v) ==
    IF isnan(v) THEN Converted("unmodelled", 0)
    ELSE IF v.type = "FLOAT_T" THEN Converted("run", truncated(v.ival))
    ELSE IF isNumber(v) THEN Converted("run", v.ival)
    ELSE IF v.type = "STR_T" THEN str_to_int(v.sval)
    ELSE Converted("ValueError", 0)

obj_as_char(v) ==
    IF isnan(v) THEN Converted("unmodelled", 0)
    ELSE IF v.type = "FLOAT_T" THEN Converted("run", char_t(truncated(v.ival)))
    ELSE IF isNumber(v) THEN Converted("run", char_t(v.ival))
    ELSE IF v.type = "STR_T" THEN str_to_char(v.sval)
    ELSE Converted("ValueError", 0)

obj_as_bool(v) ==
    IF isNumber(v) THEN Converted("run", IF isnan(v) \/ v.ival # 0 THEN 1 ELSE 0)
    ELSE Converted("ValueError", 0)

\* the value of a number as a float_t, in halves
obj_as_float(v) == IF v.type = "FLOAT_T" THEN v.ival ELSE 2 * v.ival

\* number.c: the arithmetic of two numbers
coerce(op1, op2) ==
    IF op1.type = "FLOAT_T" \/ op2.type = "FLOAT_T" THEN "FLOAT_T"
    ELSE IF op1.type = "INT_T" \/ op2.type = "INT_T" THEN "INT_T"
    ELSE "CHAR_T"

arithmetic(operator, a, b) ==
    CASE operator = "ADD" -> a + b [] operator = "SUB" -> a - b [] OTHER -> a * b

number_arithmetic(operator, op1, op2) ==
    IF isnan(op1) \/ isnan(op2) THEN NaN
    ELSE IF coerce(op1, op2) = "FLOAT_T"
    THEN FloatVal(arithmetic(operator, obj_as_float(op1), obj_as_float(op2)))
    ELSE IF coerce(op1, op2) = "INT_T"
    THEN IntVal(arithmetic(operator, op1.ival, op2.ival))
    ELSE CharVal(char_t(arithmetic(operator, char_t(op1.ival), char_t(op2.ival))))

\* number.c: the comparisons compare as float_t when an operand is a FLOAT,
\* as int_t when op1 is an INT and as char_t otherwise; of the comparisons
\* with a NaN only != is true
comparison(operator, a, b) ==
    CASE operator = "EQ" -> IF a = b THEN 1 ELSE 0
      [] operator = "NEQ" -> IF a # b THEN 1 ELSE 0
      [] operator = "LSS" -> IF a < b THEN 1 ELSE 0
      [] operator = "GTR" -> IF a > b THEN 1 ELSE 0
      [] operator = "GEQ" -> IF a >= b THEN 1 ELSE 0
      [] OTHER -> IF a <= b THEN 1 ELSE 0

number_comparison(operator, op1, op2) ==
    IF isnan(op1) \/ isnan(op2) THEN (IF operator = "NEQ" THEN 1 ELSE 0)
    ELSE IF op1.type = "FLOAT_T" \/ op2.type = "FLOAT_T"
    THEN comparison(operator, obj_as_float(op1), obj_as_float(op2))
    ELSE IF op1.type = "INT_T" THEN comparison(operator, op1.ival, op2.ival)
    ELSE comparison(operator, char_t(op1.ival), char_t(op2.ival))

\* obj_eql, as the number its result holds
RECURSIVE obj_eql(_, _)
RECURSIVE list_cmp(_, _, _)
list_cmp(op1, op2, i) ==
    IF i > Len(op1) THEN 1
    ELSE IF obj_eql(op1[i], op2[i]) = 0 THEN 0
    ELSE list_cmp(op1, op2, i + 1)

list_eql(op1, op2) == IF Len(op1) # Len(op2) THEN 0 ELSE list_cmp(op1, op2, 1)

obj_eql(op1, op2) ==
    IF isNumber(op1) /\ isNumber(op2) THEN number_comparison("EQ", op1, op2)
    ELSE IF op1.type = "STR_T" /\ op2.type = "STR_T"
    THEN (IF op1.sval = op2.sval THEN 1 ELSE 0)
    ELSE IF op1.type = "LIST_T" /\ op2.type = "LIST_T" THEN list_eql(op1.elems, op2.elems)
    ELSE 0

\* what an operator returns: an error raised, NULL, or an object of value val
Returns(error, null, val) == [status |-> error, null |-> null, val |-> val]
Raises(error) == Returns(error, TRUE, IntVal(0))

\* the items obj_item gives for the indexes of a sequence
items_of(sequence) ==
    IF sequence.type = "STR_T"
    THEN [i \in 1..Len(sequence.sval) |-> CharVal(Ord(sequence.sval[i]))]
    ELSE sequence.elems

\* the loop of obj_in; result is what the loop has in result
RECURSIVE in_loop(_, _, _, _)
in_loop(op1, items, i, result) ==
    IF i > Len(items) THEN result
    ELSE IF obj_eql(op1, items[i]) = 1 THEN Returns("run", FALSE, IntVal(1))
    ELSE in_loop(op1, items, i + 1, Returns("run", FALSE, IntVal(0)))

obj_in(op1, op2) ==
    IF ~isSequence(op2) THEN Raises("TypeError")
    ELSE in_loop(op1, items_of(op2), 1, Returns("run", TRUE, IntVal(0)))

\* visit_binary's switch, for the operators of the programs below; + and *
\* are modelled for numbers only, and * for a CHAR or an INT only
binary(operator, op1, op2) ==
    IF operator = "OP_IN" THEN obj_in(op1, op2)
    ELSE IF operator = "EQ" THEN Returns("run", FALSE, IntVal(obj_eql(op1, op2)))
    ELSE IF ~(isNumber(op1) /\ isNumber(op2))
    THEN Raises(IF operator \in {"ADD", "MUL"} THEN "unmodelled" ELSE "TypeError")
    ELSE IF operator = "MUL" /\ coerce(op1, op2) = "FLOAT_T" THEN Raises("unmodelled")
    ELSE IF operator \in {"LSS", "LEQ"}
    THEN Returns("run", FALSE, IntVal(number_comparison(operator, op1, op2)))
    ELSE Returns("run", FALSE, number_arithmetic(operator, op1, op2))

\* ------------------------------------------------------------------------
\* The programs evaluated
\* ------------------------------------------------------------------------
Number(digit) == IntLiteral(<<digit>>)
Show(e) == PrintStmnt(<<e>>)
List(type, name, arguments) == VariableDeclaration(type, name, <<Arglist(arguments)>>)

\* def fact(n) / if n <= 1 / return 1 // return n * fact(n - 1) // print fact(2)
Factorial ==
    <<FunctionDeclaration("fact", <<"n">>,
        <<IfStmnt(Binary("LEQ", Reference("n"), Number("1")), <<ReturnStmnt(<<Number("1")>>)>>),
          ReturnStmnt(<<Binary("MUL", Reference("n"),
              FunctionCall("fact", <<Binary("SUB", Reference("n"), Number("1"))>>))>>)>>),
      Show(FunctionCall("fact", <<Number("2")>>))>>

\* functions whose body executes two, one and no RETURN
TwoReturns ==
    <<FunctionDeclaration("f", <<>>, <<ReturnStmnt(<<Number("1")>>), ReturnStmnt(<<Number("2")>>)>>),
      Show(FunctionCall("f", <<>>))>>

OneReturn ==
    <<FunctionDeclaration("h", <<"a">>, <<ReturnStmnt(<<Reference("a")>>)>>),
      Show(FunctionCall("h", <<Number("7")>>))>>

NoReturn ==
    <<FunctionDeclaration("g", <<>>, <<PassStmnt, ReturnStmnt(<<>>)>>),
      FunctionDeclaration("p", <<>>, <<PassStmnt>>),
      Show(FunctionCall("g", <<>>)), Show(FunctionCall("p", <<>>))>>

\* loops left by break, with a plain condition
WhileBreak ==
    <<VariableDeclaration("VT_INT", "i", <<Number("0")>>),
      WhileStmnt(Binary("LSS", Reference("i"), Number("2")),
          <<ExpressionStmnt(Assignment("ADDASSIGN", Reference("i"), Number("1")))>>),
      WhileStmnt(Number("1"), <<BreakStmnt, PassStmnt>>),
      DoStmnt(<<BreakStmnt>>, Number("1")),
      DoStmnt(<<ContinueStmnt, PassStmnt>>, Number("0"))>>

\* def t() / while 0 / pass // return 1
LoopInside ==
    FunctionDeclaration("t", <<>>, <<WhileStmnt(Number("0"), <<PassStmnt>>), ReturnStmnt(<<Number("1")>>)>>)

\* loops left by break whose condition calls a function that holds a loop
WhileCallBreak == <<LoopInside, WhileStmnt(FunctionCall("t", <<>>), <<BreakStmnt>>)>>

DoCallBreak == <<LoopInside, DoStmnt(<<BreakStmnt>>, FunctionCall("t", <<>>))>>

\* def one() / return 1 // def f() / while one() / return 5 // print f()
WhileCallReturn ==
    <<FunctionDeclaration("one", <<>>, <<ReturnStmnt(<<Number("1")>>)>>),
      FunctionDeclaration("f", <<>>,
          <<WhileStmnt(FunctionCall("one", <<>>), <<ReturnStmnt(<<Number("5")>>)>>)>>),
      Show(FunctionCall("f", <<>>))>>

\* list xs = [1,2,3] // xs.append(4) // xs.remove(0) // print xs.len()
Methods ==
    <<List("VT_LIST", "xs", <<Number("1"), Number("2"), Number("3")>>),
      ExpressionStmnt(Method(Reference("xs"), "append", <<Number("4")>>)),
      ExpressionStmnt(Method(Reference("xs"), "remove", <<Number("0")>>)),
      Show(Method(Reference("xs"), "len", <<>>))>>

Lengths ==
    <<List("VT_LIST", "xs", <<Number("1"), Number("2")>>),
      Show(Method(Reference("xs"), "len", <<>>)),
      Show(Method(StrLiteral(<<"a", "b">>), "len", <<>>))>>

Remove ==
    <<List("VT_LIST", "xs", <<Number("1"), Number("2")>>),
      ExpressionStmnt(Method(Reference("xs"), "remove", <<Number("0")>>))>>

Insert ==
    <<List("VT_LIST", "xs", <<Number("1")>>),
      ExpressionStmnt(Method(Reference("xs"), "insert", <<Number("0"), Number("5")>>))>>

\* objects reached through listnodes that outlive their list
IndexTemporary ==
    <<Show(Index(Arglist(<<Number("1"), Number("2")>>), Number("0"))),
      Show(Index(StrLiteral(<<"a", "b">>), Number("1")))>>

ForTemporary ==
    <<ForStmnt("x", Arglist(<<Number("1"), Number("2")>>), <<Show(Reference("x"))>>),
      Show(Reference("x")),
      ForStmnt("c", StrLiteral(<<"a", "b">>), <<ContinueStmnt>>)>>

ElementAssignment ==
    <<List("VT_LIST", "xs", <<Number("1"), Number("2")>>),
      ExpressionStmnt(Assignment("ASSIGN", Index(Reference("xs"), Number("0")), Number("5"))),
      ExpressionStmnt(Assignment("ASSIGN", Index(Reference("xs"), Number("1")),
                                 Index(Reference("xs"), Number("0")))),
      Show(Reference("xs"))>>

ForRemoved ==
    <<List("VT_LIST", "xs", <<Number("1"), Number("2")>>),
      ForStmnt("x", Reference("xs"),
          <<ExpressionStmnt(Assignment("ASSIGN", Reference("xs"), Arglist(<<Number("3")>>))),
            Show(Reference("x"))>>)>>

CallArguments ==
    <<FunctionDeclaration("f", <<"a">>,
          <<ExpressionStmnt(Assignment("ASSIGN", Index(Reference("a"), Number("0")), Number("9"))),
            ReturnStmnt(<<Index(Reference("a"), Number("0"))>>)>>),
      List("VT_LIST", "xs", <<Arglist(<<Number("1")>>)>>),
      Show(FunctionCall("f", <<Index(Reference("xs"), Number("0"))>>)),
      Show(Reference("xs"))>>

\* print x in s, for the sequences s of up to MaxWord elements
Words(E) == UNION {[1..n -> E] : n \in 0..MaxWord}

InLefts == {Number("1"), Number("2"), CharLiteral(<<"a">>), StrLiteral(<<"a">>)}

InRights ==
    {Arglist(w) : w \in Words({Number("1"), Number("2")})}
        \cup {StrLiteral(w) : w \in Words({"a", "b"})}

\* int i = 0 / while i < 2 / int x // i += 1
DeclaredInLoop ==
    <<VariableDeclaration("VT_INT", "i", <<Number("0")>>),
      WhileStmnt(Binary("LSS", Reference("i"), Number("2")),
          <<VariableDeclaration("VT_INT", "x", <<>>),
            ExpressionStmnt(Assignment("ADDASSIGN", Reference("i"), Number("1")))>>)>>

\* int i = 0 / while i < 2 / def g() / pass /// i += 1
FunctionInLoop ==
    <<VariableDeclaration("VT_INT", "i", <<Number("0")>>),
      WhileStmnt(Binary("LSS", Reference("i"), Number("2")),
          <<FunctionDeclaration("g", <<>>, <<PassStmnt>>),
            ExpressionStmnt(Assignment("ADDASSIGN", Reference("i"), Number("1")))>>)>>

\* the body of g, called by f, which declares a = 2 and is called at the
\* global level, where a = 1 is declared if the condition holds:
\* if condition / int a = 1 // def g() / body // def f() / int a = 2 / return g() // print f()
Chain(condition, body) ==
    <<IfStmnt(Number(condition), <<VariableDeclaration("VT_INT", "a", <<Number("1")>>)>>),
      FunctionDeclaration("g", <<>>, body),
      FunctionDeclaration("f", <<>>,
          <<VariableDeclaration("VT_INT", "a", <<Number("2")>>),
            ReturnStmnt(<<FunctionCall("g", <<>>)>>)>>),
      Show(FunctionCall("f", <<>>))>>

\* g declares a = 3 and returns it, or g returns the a it finds
Chains ==
    {Chain(condition, body) :
        condition \in {"0", "1"},
        body \in {<<VariableDeclaration("VT_INT", "a", <<Number("3")>>),
                    ReturnStmnt(<<Reference("a")>>)>>,
                  <<ReturnStmnt(<<Reference("a")>>)>>}}

\* the loops that execute a BREAK or a CONTINUE in their first iteration;
\* none of them reaches its print 9
InnerLoops ==
    {ForStmnt("j", Arglist(<<Number("1"), Number("2")>>), <<BreakStmnt, Show(Number("9"))>>),
     ForStmnt("j", Arglist(<<Number("1"), Number("2")>>), <<ContinueStmnt, Show(Number("9"))>>),
     ForStmnt("j", Arglist(<<Number("1"), Number("2")>>),
              <<IfStmnt(Number("1"), <<BreakStmnt>>), Show(Number("9"))>>),
     WhileStmnt(Number("1"), <<BreakStmnt, Show(Number("9"))>>),
     DoStmnt(<<BreakStmnt, Show(Number("9"))>>, Number("1")),
     DoStmnt(<<ContinueStmnt, Show(Number("9"))>>, Number("0"))}

\* an enclosing loop whose body is the inner loop and then a print:
\* for x in [1, 2] / inner / print x
\* do / inner / print 1 // while 0
\* int i = 0 / while i < 2 / inner / i += 1 / print i
NestedLoop(outer, inner) ==
    IF outer = "FOR_STMNT"
    THEN <<ForStmnt("x", Arglist(<<Number("1"), Number("2")>>), <<inner, Show(Reference("x"))>>)>>
    ELSE IF outer = "DO_STMNT"
    THEN <<DoStmnt(<<inner, Show(Number("1"))>>, Number("0"))>>
    ELSE <<VariableDeclaration("VT_INT", "i", <<Number("0")>>),
           WhileStmnt(Binary("LSS", Reference("i"), Number("2")),
               <<inner,
                 ExpressionStmnt(Assignment("ADDASSIGN", Reference("i"), Number("1"))),
                 Show(Reference("i"))>>)>>

\* if 0 / int a = 1 // print a
VariableNotDeclared ==
    <<IfStmnt(Number("0"), <<VariableDeclaration("VT_INT", "a", <<Number("1")>>)>>),
      Show(Reference("a"))>>

\* if 0 / def f() / pass /// print f()
FunctionNotDeclared ==
    <<IfStmnt(Number("0"), <<FunctionDeclaration("f", <<>>, <<PassStmnt>>)>>),
      Show(FunctionCall("f", <<>>))>>

NestedLoops == {NestedLoop(outer, inner) : outer \in Loops, inner \in InnerLoops}

\* def f() / break // f() / print 1, the same with continue, and
\* def f() / break // for j in [1, 2] / f() / print 9 // print 1
Escaping(statement) ==
    <<FunctionDeclaration("f", <<>>, <<statement>>),
      ExpressionStmnt(FunctionCall("f", <<>>)),
      Show(Number("1"))>>

EscapingInLoop(statement) ==
    <<FunctionDeclaration("f", <<>>, <<statement>>),
      ForStmnt("j", Arglist(<<Number("1"), Number("2")>>),
               <<ExpressionStmnt(FunctionCall("f", <<>>)), Show(Number("9"))>>),
      Show(Number("1"))>>

Escapes ==
    {Escaping(BreakStmnt), Escaping(ContinueStmnt),
     EscapingInLoop(BreakStmnt), EscapingInLoop(ContinueStmnt)}

Programs ==
    {Block(p) : p \in Chains \cup NestedLoops \cup Escapes} \cup
    {Block(p) : p \in {Factorial, TwoReturns, OneReturn, NoReturn, WhileBreak,
                       WhileCallBreak, DoCallBreak, WhileCallReturn, Methods,
                       Lengths, Remove, Insert, IndexTemporary, ForTemporary,
                       ElementAssignment, ForRemoved, CallArguments,
                       DeclaredInLoop, FunctionInLoop, VariableNotDeclared,
                       FunctionNotDeclared}}
        \cup {Block(<<Show(Binary("OP_IN", x, s))>>) : x \in InLefts, s \in InRights}

\* the node at a path of kids from the root of the program
RECURSIVE Descend(_, _)
Descend(n, path) == IF path = <<>> THEN n ELSE Descend(n.kids[Head(path)], Tail(path))

NodeAt(path) == Descend(prog, path)

\* ------------------------------------------------------------------------
\* Creating and assigning objects (object.c, list.c)
\* ------------------------------------------------------------------------
\* obj_create(LISTNODE_T, obj) and the linking of the listnode at the tail
list_append_object(h, list, obj) ==
    [Append(h, [Object("LISTNODE_T", 0, <<>>, <<obj>>) EXCEPT !.refcount = 1])
        EXCEPT ![list].items = Append(@, Len(h) + 1)]

\* obj_create of a value; the object created is at Len(h) + 1.  A list is
\* filled by list_set's loop, which appends a copy of every element.
RECURSIVE obj_create(_, _)
RECURSIVE list_fill(_, _, _, _)
list_fill(h, list, elems, i) ==
    IF i > Len(elems) THEN h
    ELSE list_fill(list_append_object(obj_create(h, elems[i]), list, Len(h) + 1),
                   list, elems, i + 1)

obj_create(h, v) ==
    IF v.type = "LIST_T"
    THEN list_fill(obj_alloc(h, Object("LIST_T", 0, <<>>, <<>>)), Len(h) + 1, v.elems, 1)
    ELSE obj_alloc(h, Object(v.type, v.ival, v.sval, <<>>))

created(h) == Len(h) + 1

\* the types obj_copy copies
copies(v) == v.type \in {"CHAR_T", "INT_T", "FLOAT_T", "STR_T", "LIST_T"}

\* a copy that takes over the listnodes of the list copied
obj_shallow(h, obj) == obj_alloc(h, h[obj_from_listnode(h, obj)])

obj_copy(h, obj) == obj_create(h, ValueOf(h, obj))

list_set(h, dest, src) == list_fill(list_clear(h, dest), dest, src.elems, 1)

listnode_set(h, listnode, obj) ==
    [(IF h[listnode].items = <<>> THEN h ELSE obj_decref(h, h[listnode].items[1]))
        EXCEPT ![listnode].items = <<obj>>]

\* the error obj_assign raises for op1 = op2, "run" for none
assigns(op1, op2) ==
    IF op1.type = "CHAR_T" THEN obj_as_char(op2).status
    ELSE IF op1.type = "INT_T" THEN obj_as_int(op2).status
    ELSE IF op1.type = "FLOAT_T" THEN (IF isNumber(op2) THEN "run" ELSE "unmodelled")
    ELSE IF op1.type = "STR_T" THEN (IF op2.type = "STR_T" THEN "run" ELSE "unmodelled")
    ELSE IF op1.type = "LIST_T" THEN (IF op2.type = "LIST_T" THEN "run" ELSE "ValueError")
    ELSE IF op1.type = "LISTNODE_T" THEN (IF copies(op2) THEN "run" ELSE "TypeError")
    ELSE "TypeError"

\* obj_assign, when it raises nothing; v is the value of op2
obj_assign(h, op1, op2, v) ==
    IF h[op1].type = "CHAR_T" THEN [h EXCEPT ![op1].ival = obj_as_char(v).ival]
    ELSE IF h[op1].type = "INT_T" THEN [h EXCEPT ![op1].ival = obj_as_int(v).ival]
    ELSE IF h[op1].type = "FLOAT_T"
    THEN [h EXCEPT ![op1].ival = obj_as_float(v), ![op1].sval = IF isnan(v) THEN v.sval ELSE <<>>]
    ELSE IF h[op1].type = "STR_T" THEN [h EXCEPT ![op1].sval = v.sval]
    ELSE IF h[op1].type = "LIST_T" THEN list_set(h, op1, v)
    ELSE listnode_set(obj_copy(h, op2), op1, created(h))

\* a listnode handed out without a reference of its own
list_item_borrowed(h, list, index) == h

\* list_item: the listnode at index, its refcount one higher
list_item_ref(h, list, index) == obj_incref(h, h[list].items[index + 1])

\* ------------------------------------------------------------------------
\* Identifiers (identifier.c).  scope is the hierarchy of levels, the global
\* level first and the local level last; a level has its newest identifier
\* first.  An Identifier* is a level and a name, NULL is level 0.
\* ------------------------------------------------------------------------
Identifier(type, name) == [name |-> name, type |-> type, object |-> 0, node |-> <<>>]

Id(level, name) == [level |-> level, name |-> name]

searchIdentifierInScope(level, name) == {i \in DOMAIN level : level[i].name = name}

\* a search through every level, the local level first
search_up(sc, name) ==
    IF \E l \in DOMAIN sc : searchIdentifierInScope(sc[l], name) # {}
    THEN Id(CHOOSE l \in DOMAIN sc :
                /\ searchIdentifierInScope(sc[l], name) # {}
                /\ \A k \in DOMAIN sc : k > l => searchIdentifierInScope(sc[k], name) = {},
            name)
    ELSE Id(0, name)

search(sc, name) ==
    IF searchIdentifierInScope(sc[Len(sc)], name) # {} THEN Id(Len(sc), name)
    ELSE IF searchIdentifierInScope(sc[1], name) # {} THEN Id(1, name)
    ELSE Id(0, name)

\* where the identifier is in its level
index_of(sc, id) == CHOOSE i \in searchIdentifierInScope(sc[id.level], id.name) : TRUE

identifier(sc, id) == sc[id.level][index_of(sc, id)]

\* add: the local level with the new identifier, unchanged when the name exists
add(sc, type, name) ==
    IF searchIdentifierInScope(sc[Len(sc)], name) # {} THEN sc
    ELSE [sc EXCEPT ![Len(sc)] = <<Identifier(type, name)>> \o @]

added(sc, name) ==
    IF searchIdentifierInScope(sc[Len(sc)], name) # {} THEN Id(0, name) ELSE Id(Len(sc), name)

\* unbind's effect on the objects
unbind(h, ident) ==
    IF ident.type = "VARIABLE" /\ ident.object # 0 THEN obj_decref(h, ident.object) ELSE h

RECURSIVE unbind_all(_, _)
unbind_all(h, level) ==
    IF level = <<>> THEN h ELSE unbind_all(unbind(h, Head(level)), Tail(level))

appendScopeLevel(sc) == Append(sc, <<>>)

\* a remove_level that leaves the hierarchy as it is
keepScopeLevel(sc) == sc

removeScopeLevel(sc) == IF Len(sc) > 1 THEN SubSeq(sc, 1, Len(sc) - 1) ELSE <<<<>>>>

\* ------------------------------------------------------------------------
\* The evaluator's state as one record, and the steps of visit()
\* ------------------------------------------------------------------------
\* control holds one frame for every visit() in progress: the node, where its
\* handler is (pc), the handler's locals (x) and the stack depth on entry (d).
\* ret, val and late record, for a call or a loop, the RETURNs or BREAKs
\* executed in its body, the object of the first RETURN, and whether a
\* statement of the body was started afterwards; began records do_break and
\* do_continue on entry.
Frame(path, d, began) ==
    [node |-> path, type |-> NodeAt(path).type, pc |-> "start", d |-> d, x |-> <<>>,
     ret |-> 0, val |-> 0, late |-> FALSE, began |-> began]

Machine ==
    [control |-> control, stack |-> stack, heap |-> heap, scope |-> scope,
     do_break |-> do_break, do_continue |-> do_continue, do_return |-> do_return,
     out |-> out, status |-> status, last |-> last, called |-> called,
     applied |-> applied, ub |-> FALSE]

Top(m) == m.control[Len(m.control)]
Goto(m, pc) == [m EXCEPT !.control[Len(m.control)].pc = pc]
Local(m, x) == [m EXCEPT !.control[Len(m.control)].x = x]
Heap(m, h) == [m EXCEPT !.heap = h]

\* stack.c
push(m, obj) == [m EXCEPT !.stack = Append(@, obj)]
pop(m) == [m EXCEPT !.stack = SubSeq(@, 1, Len(@) - 1)]
peek(m) == IF m.stack = <<>> THEN 0 ELSE m.stack[Len(m.stack)]

\* error.c raise: the message and exit(); a NULL pointer used is a crash
raise(m, error) == [m EXCEPT !.status = error]
Undefined(m, error) == [m EXCEPT !.status = error, !.ub = TRUE]

Max(S) == CHOOSE x \in S : \A y \in S : y <= x

\* the frame of the call, or of the loop, whose body is being executed
Innermost(c, types) == Max({0} \cup {i \in DOMAIN c : c[i].type \in types})

Statements == {"EXPRESSION_STMNT", "FUNCTION_DECLARATION", "VARIABLE_DECLARATION", "DEFVAR",
               "IF_STMNT", "WHILE_STMNT", "DO_STMNT", "FOR_STMNT", "PRINT_STMNT",
               "RETURN_STMNT", "PASS_STMNT", "BREAK_STMNT", "CONTINUE_STMNT"}

\* a statement is started: the call it belongs to records it when a RETURN
\* was executed before
Started(c, type) ==
    IF type \in Statements /\ Innermost(c, {"FUNCTION_CALL"}) > 0
    THEN [c EXCEPT ![Innermost(c, {"FUNCTION_CALL"})].late = @ \/ (c[Innermost(c, {"FUNCTION_CALL"})].ret > 0)]
    ELSE c

\* visit(n, s) of the node at path, from the handler of the top frame, which
\* goes on at pc
VisitAt(m, path, pc) ==
    [m EXCEPT !.control =
        Append(Started([@ EXCEPT ![Len(@)].pc = pc], NodeAt(path).type),
               Frame(path, Len(m.stack), <<m.do_break, m.do_continue>>))]

Visit(m, k, pc) == VisitAt(m, Append(Top(m).node, k), pc)

\* a loop visits its body: the loop records it when a BREAK or RETURN was
\* executed in the body before
VisitBody(m, k, pc) ==
    Visit([m EXCEPT !.control[Len(m.control)].late = @ \/ (Top(m).ret > 0)], k, pc)

\* a RETURN was executed: the call and the loops it is in record it
Returned(c, from, obj) ==
    [i \in DOMAIN c |->
        IF i >= from /\ from > 0
        THEN [c[i] EXCEPT !.ret = @ + 1, !.val = IF c[i].ret = 0 THEN obj ELSE @]
        ELSE c[i]]

\* a BREAK was executed: the loop it is in records it
Broken(c, loop) == IF loop = 0 THEN c ELSE [c EXCEPT ![loop].ret = @ + 1]

\* the end of visit(): the frame is left, the last visit is recorded
Leave(m) ==
    [m EXCEPT !.control = SubSeq(@, 1, Len(@) - 1),
              !.status = IF Len(m.control) = 1 THEN "done" ELSE @,
              !.last = [type |-> Top(m).type, operator |-> NodeAt(Top(m).node).operator,
                        d0 |-> Top(m).d, d1 |-> Len(m.stack), returns |-> m.do_return # 0,
                        top |-> peek(m), ret |-> Top(m).ret, val |-> Top(m).val,
                        late |-> Top(m).late]]

\* the state after a step; an object used after undefined behaviour may also
\* end the program
Commit(m) ==
    /\ Len(m.heap) <= MaxHeap
    /\ Len(m.control) <= MaxVisits
    /\ m.status # "unmodelled"
    /\ control' = m.control
    /\ stack' = m.stack
    /\ heap' = m.heap
    /\ scope' = m.scope
    /\ do_break' = m.do_break
    /\ do_continue' = m.do_continue
    /\ do_return' = m.do_return
    /\ out' = m.out
    /\ status' \in (IF m.ub THEN {m.status, "crash"} ELSE {m.status})
    /\ last' = m.last
    /\ called' = m.called
    /\ applied' = m.applied
    /\ UNCHANGED <<prog, scanVars, sliceVars, auxVars>>

\* the handler of the top frame is at work
At(type) ==
    /\ status = "run"
    /\ control # <<>>
    /\ control[Len(control)].type = type
    /\ control[Len(control)].pc # "done"

\* ------------------------------------------------------------------------
\* visit(): the handler of the node, then the node's method
\* ------------------------------------------------------------------------
\* what a method gives: the error raised, the objects, the object returned
Outcome(error, ub, h, obj) == [status |-> error, ub |-> ub, heap |-> h, obj |-> obj]

\* list.c list_method.  arguments holds the AST nodes of the method's
\* arguments: insert, append and remove read a node as an object, of which
\* obj_as_int and obj_copy find a type they do not know and raise, with the
\* name of a type read through what is not a type.
list_method(h, obj, name, arguments) ==
    IF name = "len"
    THEN (IF Len(arguments) # 0 THEN Outcome("SyntaxError", FALSE, h, 0)
          ELSE Outcome("run", FALSE, obj_create(h, IntVal(Len(h[obj].items))), created(h)))
    ELSE IF name = "insert"
    THEN (IF Len(arguments) # 2 THEN Outcome("SyntaxError", FALSE, h, 0)
          ELSE Outcome("ValueError", TRUE, h, 0))
    ELSE IF name = "append"
    THEN (IF Len(arguments) # 1 THEN Outcome("SyntaxError", FALSE, h, 0)
          ELSE Outcome("TypeError", TRUE, h, 0))
    ELSE IF name = "remove"
    THEN (IF Len(arguments) # 1 THEN Outcome("SyntaxError", FALSE, h, 0)
          ELSE Outcome("ValueError", TRUE, h, 0))
    ELSE Outcome("SyntaxError", FALSE, h, 0)

\* str.c str_method
str_method(h, obj, name, arguments) ==
    IF name = "len" /\ Len(arguments) = 0
    THEN Outcome("run", FALSE, obj_create(h, IntVal(Len(h[obj].sval))), created(h))
    ELSE Outcome("SyntaxError", FALSE, h, 0)

obj_method(h, obj, name, arguments) ==
    IF h[obj].type = "LIST_T" THEN list_method(h, obj, name, arguments)
    ELSE IF h[obj].type = "STR_T" THEN str_method(h, obj, name, arguments)
    ELSE Outcome("unmodelled", FALSE, h, 0)

\* pop, obj_method, push, obj_decref; called records the call
method(m, n, obj, receiver, o) ==
    IF o.status # "run"
    THEN [m EXCEPT !.status = o.status, !.ub = o.ub,
                   !.called = [name |-> n.method, arguments |-> n.arguments,
                               before |-> ValueOf(m.heap, receiver),
                               after |-> ValueOf(m.heap, receiver)]]
    ELSE [m EXCEPT !.stack = Append(SubSeq(@, 1, Len(@) - 1), o.obj),
                   !.heap = obj_decref(o.heap, obj),
                   !.called = [name |-> n.method, arguments |-> n.arguments,
                               before |-> ValueOf(m.heap, receiver),
                               after |-> ValueOf(o.heap, receiver)]]

left_or_exit(m) == IF m.status = "run" THEN Leave(m) ELSE m

epilogue(m, n) ==
    IF n.method = "" THEN Leave(m)
    ELSE IF peek(m) = 0 THEN raise(m, "crash")
    ELSE left_or_exit(method(m, n, peek(m), obj_from_listnode(m.heap, peek(m)),
                             obj_method(m.heap, obj_from_listnode(m.heap, peek(m)),
                                        n.method, n.arguments)))

visit ==
    /\ status = "run"
    /\ control # <<>>
    /\ control[Len(control)].pc = "done"
    /\ Commit(epilogue(Machine, NodeAt(control[Len(control)].node)))

\* ------------------------------------------------------------------------
\* The handlers of visit.c
\* ------------------------------------------------------------------------
\* the handler's counter i
Counter(m) == IF Top(m).x = <<>> THEN 0 ELSE Top(m).x[1]

block(m, n, i) ==
    IF i # Len(n.kids) /\ ~(m.do_break # 0 \/ m.do_continue # 0)
    THEN Visit(Local(m, <<i + 1>>), i + 1, "loop")
    ELSE Goto(m, "done")

visit_block == At("BLOCK") /\ Commit(block(Machine, NodeAt(Top(Machine).node), Counter(Machine)))

\* push(s, obj_create(...)) at the end of a handler
push_created(m, v) == Goto(push(Heap(m, obj_create(m.heap, v)), created(m.heap)), "done")

converted(m, type, c) ==
    IF c.status # "run" THEN raise(m, c.status) ELSE push_created(m, Val(type, c.ival, <<>>, <<>>))

literal(m, n) ==
    IF n.name = "VT_CHAR" THEN converted(m, "CHAR_T", str_to_char(n.val))
    ELSE IF n.name = "VT_INT" THEN converted(m, "INT_T", str_to_int(n.val))
    ELSE push_created(m, Val("STR_T", 0, n.val, <<>>))

visit_literal == At("LITERAL") /\ Commit(literal(Machine, NodeAt(Top(Machine).node)))

referenced(m, id) ==
    IF id.level = 0 \/ identifier(m.scope, id).object = 0 THEN raise(m, "crash")
    ELSE Goto(push(Heap(m, obj_incref(m.heap, identifier(m.scope, id).object)),
                   identifier(m.scope, id).object), "done")

visit_reference ==
    At("REFERENCE") /\ Commit(referenced(Machine, search(scope, NodeAt(Top(Machine).node).name)))

\* obj = pop(s); obj_decref(obj)
dropped(m, pc) ==
    IF peek(m) = 0 THEN raise(m, "crash")
    ELSE Goto(pop(Heap(m, obj_decref(m.heap, peek(m)))), pc)

expression_stmnt(m, pc) == IF pc = "start" THEN Visit(m, 1, "visited") ELSE dropped(m, "done")

visit_expression_stmnt == At("EXPRESSION_STMNT") /\ Commit(expression_stmnt(Machine, Top(Machine).pc))

\* obj_print: out gets the value printed
printed(m, i) ==
    IF peek(m) = 0 THEN raise(m, "crash")
    ELSE Local(dropped([m EXCEPT !.out = Append(@, ValueOf(m.heap, peek(m)))], "loop"), <<i + 1>>)

print_stmnt(m, n, pc, i) ==
    IF pc = "visited" THEN printed(m, i)
    ELSE IF i # Len(n.kids) THEN Visit(Local(m, <<i>>), i + 1, "visited")
    ELSE Goto(m, "done")

visit_print_stmnt ==
    At("PRINT_STMNT")
        /\ Commit(print_stmnt(Machine, NodeAt(Top(Machine).node), Top(Machine).pc, Counter(Machine)))

\* do_return = 1, with the value on the stack
returning(m) ==
    Goto([m EXCEPT !.do_return = 1,
                   !.control = Returned(@, Innermost(@, {"FUNCTION_CALL"}), peek(m))], "done")

return_stmnt(m, n, pc) ==
    IF pc = "visited" THEN returning(m)
    ELSE IF n.kids = <<>>
    THEN returning(push(Heap(m, obj_create(m.heap, IntVal(0))), created(m.heap)))
    ELSE Visit(m, 1, "visited")

visit_return_stmnt ==
    At("RETURN_STMNT") /\ Commit(return_stmnt(Machine, NodeAt(Top(Machine).node), Top(Machine).pc))

visit_pass_stmnt == At("PASS_STMNT") /\ Commit(Goto(Machine, "done"))

\* the loop a BREAK belongs to: the innermost of the function being executed
loop_of(c) ==
    IF Innermost(c, Loops) > Innermost(c, {"FUNCTION_CALL"}) THEN Innermost(c, Loops) ELSE 0

break_stmnt(m) == Goto([m EXCEPT !.do_break = 1, !.control = Broken(@, loop_of(@))], "done")

visit_break_stmnt == At("BREAK_STMNT") /\ Commit(break_stmnt(Machine))

visit_continue_stmnt == At("CONTINUE_STMNT") /\ Commit(Goto([Machine EXCEPT !.do_continue = 1], "done"))

\* the switch of visit_binary and the two obj_decref; res is what the operator
\* returns for the values of left and right
apply(m, operator, op1, op2, res) ==
    IF res.status # "run" THEN raise(m, res.status)
    ELSE Goto([m EXCEPT
                 !.stack = Append(SubSeq(@, 1, Len(@) - 1),
                                  IF res.null THEN 0 ELSE created(m.heap)),
                 !.heap = obj_decref(obj_decref(IF res.null THEN @ ELSE obj_create(@, res.val),
                                                op1), op2),
                 !.applied = [operator |-> operator, left |-> ValueOf(m.heap, op1),
                              right |-> ValueOf(m.heap, op2), result |-> res]], "done")

\* left = pop(s), the first local of the handler
popped(m, k, pc) ==
    IF peek(m) = 0 THEN raise(m, "crash") ELSE Visit(Local(pop(m), <<peek(m)>>), k, pc)

binary_op(m, n, pc) ==
    IF pc = "start" THEN Visit(m, 1, "left")
    ELSE IF pc = "left" THEN popped(m, 2, "right")
    ELSE IF peek(m) = 0 THEN raise(m, "crash")
    ELSE apply(m, n.operator, Top(m).x[1], peek(m),
               binary(n.operator, ValueOf(m.heap, Top(m).x[1]), ValueOf(m.heap, peek(m))))

visit_binary == At("BINARY") /\ Commit(binary_op(Machine, NodeAt(Top(Machine).node), Top(Machine).pc))

\* listtype.append(obj, obj_copy(arg)); obj_decref(arg)
appended(m, i, obj, arg) ==
    IF arg = 0 THEN raise(m, "crash")
    ELSE IF ~copies(ValueOf(m.heap, arg)) THEN raise(m, "TypeError")
    ELSE Goto(Local(pop(Heap(m, obj_decref(list_append_object(obj_copy(m.heap, arg), obj,
                                                              created(m.heap)), arg))),
                    <<i + 1, obj>>), "loop")

arglist(m, n, pc, i) ==
    IF pc = "start"
    THEN Goto(Local(Heap(m, obj_alloc(m.heap, Object("LIST_T", 0, <<>>, <<>>))),
                    <<0, created(m.heap)>>), "loop")
    ELSE IF pc = "visited" THEN appended(m, i, Top(m).x[2], peek(m))
    ELSE IF i # Len(n.kids) THEN Visit(m, i + 1, "visited")
    ELSE Goto(push(m, Top(m).x[2]), "done")

visit_arglist ==
    At("ARGLIST")
        /\ Commit(arglist(Machine, NodeAt(Top(Machine).node), Top(Machine).pc, Counter(Machine)))

\* obj_item of a list or string of length len; index counts from the end
\* when negative
item_taken(m, sequence, index, i) ==
    IF i < 0 \/ i >= Len(m.heap[sequence].items) + Len(m.heap[sequence].sval)
    THEN raise(m, "IndexError")
    ELSE IF m.heap[sequence].type = "STR_T"
    THEN Heap(m, obj_create(m.heap, CharVal(Ord(m.heap[sequence].sval[i + 1]))))
    ELSE Heap(m, list_item_ref(m.heap, sequence, i))

item_address(m, sequence, i) ==
    IF m.heap[sequence].type = "STR_T" THEN created(m.heap) ELSE m.heap[sequence].items[i + 1]

obj_item(m, sequence, i) ==
    IF m.heap[sequence].type \notin {"STR_T", "LIST_T"} THEN raise(m, "TypeError")
    ELSE item_taken(m, sequence, i, from_end(i, Len(m.heap[sequence].items) + Len(m.heap[sequence].sval)))

\* the object obj_item returned, when it raised nothing
obj_item_address(m, sequence, i) ==
    item_address(m, sequence, from_end(i, Len(m.heap[sequence].items) + Len(m.heap[sequence].sval)))

\* obj_decref(index); obj_decref(sequence); push(s, obj)
indexed(m, sequence, index, obj, m1) ==
    IF m1.status # "run" THEN m1
    ELSE Goto(push(pop(Heap(m1, obj_decref(obj_decref(m1.heap, index), sequence))), obj), "done")

index_at(m, sequence, index, i) ==
    IF i.status # "run" THEN raise(m, i.status)
    ELSE indexed(m, sequence, index,
                 obj_item_address(m, obj_from_listnode(m.heap, sequence), i.ival),
                 obj_item(m, obj_from_listnode(m.heap, sequence), i.ival))

index_op(m, pc) ==
    IF pc = "start" THEN Visit(m, 1, "sequence")
    ELSE IF pc = "sequence" THEN popped(m, 2, "index")
    ELSE IF peek(m) = 0 THEN raise(m, "crash")
    ELSE index_at(m, Top(m).x[1], peek(m), obj_as_int(ValueOf(m.heap, peek(m))))

visit_index == At("INDEX") /\ Commit(index_op(Machine, Top(Machine).pc))

\* obj_assign(target, tmp); obj_decref(tmp); obj_decref(value); push(s, target)
\* where tmp is the object created for the value res
assigned(m, target, value, res) ==
    IF res.status # "run" THEN raise(m, res.status)
    ELSE IF assigns(m.heap[target], res.val) # "run" THEN raise(m, assigns(m.heap[target], res.val))
    ELSE Goto([m EXCEPT
                 !.stack = Append(SubSeq(@, 1, Len(@) - 1), target),
                 !.heap = obj_decref(obj_decref(obj_assign(obj_create(@, res.val), target,
                                                           created(@), res.val),
                                                created(@)), value)], "done")

\* the object visit_assignment assigns, for the operators of the programs
assignment_value(operator, target, value) ==
    IF operator = "ASSIGN"
    THEN (IF copies(value) THEN Returns("run", FALSE, value) ELSE Raises("TypeError"))
    ELSE binary("ADD", target, value)

assignment(m, n, pc) ==
    IF pc = "start" THEN Visit(m, 1, "target")
    ELSE IF pc = "target" THEN popped(m, 2, "value")
    ELSE IF peek(m) = 0 THEN raise(m, "crash")
    ELSE assigned(m, Top(m).x[1], peek(m),
                  assignment_value(n.operator, ValueOf(m.heap, Top(m).x[1]),
                                   ValueOf(m.heap, peek(m))))

visit_assignment ==
    At("ASSIGNMENT") /\ Commit(assignment(Machine, NodeAt(Top(Machine).node), Top(Machine).pc))

\* identifier.c bind: the object bound before is unbound
bind(m, id, ref) ==
    IF identifier(m.scope, id).type = "VARIABLE"
    THEN [m EXCEPT !.heap = unbind(@, identifier(m.scope, id)),
                   !.scope[id.level][index_of(m.scope, id)].object = ref]
    ELSE [m EXCEPT !.scope[id.level][index_of(m.scope, id)].node = ref]

released(m, obj) == Heap(m, obj_decref(m.heap, obj))

\* id = add(VARIABLE, name); bind(id, obj_copy(arg)); obj_decref(arg)
bind_argument(m, name, arg, id) ==
    IF id.level = 0 \/ arg = 0 THEN raise(m, "crash")
    ELSE IF ~copies(ValueOf(m.heap, arg)) THEN raise(m, "TypeError")
    ELSE released(bind([m EXCEPT !.scope = add(@, "VARIABLE", name),
                                 !.heap = obj_copy(@, arg)], id, created(m.heap)), arg)

RECURSIVE bind_arguments(_, _, _, _)
bind_arguments(m, names, args, i) ==
    IF m.status # "run" \/ i > Len(args) THEN m
    ELSE bind_arguments(bind_argument(m, names[i], args[i], added(m.scope, names[i])),
                        names, args, i + 1)

entered(m, fdecl) == IF m.status # "run" THEN m ELSE VisitAt(m, Append(fdecl, 1), "body")

\* the call of the function declared at fdecl, after its arguments were visited
call(m, args, id) ==
    IF id.level = 0 \/ identifier(m.scope, id).node = <<>> THEN raise(m, "crash")
    ELSE IF Len(args) > Len(NodeAt(identifier(m.scope, id).node).val) THEN Undefined(m, "crash")
    ELSE entered(bind_arguments([m EXCEPT !.scope = appendScopeLevel(@)],
                                NodeAt(identifier(m.scope, id).node).val, args, 1),
                 identifier(m.scope, id).node)

\* scope.remove_level(); the result when no RETURN was executed; do_return = 0
called_back(m) ==
    Goto([m EXCEPT !.heap = IF m.do_return = 0
                             THEN obj_create(unbind_all(@, m.scope[Len(m.scope)]), IntVal(0))
                             ELSE unbind_all(@, m.scope[Len(m.scope)]),
                   !.stack = IF m.do_return = 0
                             THEN Append(@, created(unbind_all(m.heap, m.scope[Len(m.scope)])))
                             ELSE @,
                   !.scope = removeScopeLevel(@),
                   !.do_return = 0], "done")

\* the objects of the arguments visited so far
Args(m) == IF Top(m).x = <<>> THEN <<>> ELSE Tail(Top(m).x)

function_call(m, n, pc, i) ==
    IF pc = "argument" THEN Goto(Local(pop(m), <<i + 1>> \o Args(m) \o <<peek(m)>>), "loop")
    ELSE IF pc = "body" THEN called_back(m)
    ELSE IF i # Len(n.kids) THEN Visit(Local(m, <<i>> \o Args(m)), i + 1, "argument")
    ELSE call(m, Args(m), search(m.scope, n.name))

visit_function_call ==
    At("FUNCTION_CALL")
        /\ Commit(function_call(Machine, NodeAt(Top(Machine).node), Top(Machine).pc,
                                Counter(Machine)))

function_declaration(m, n, id) ==
    IF id.level = 0 THEN raise(m, "crash")
    ELSE Goto(bind([m EXCEPT !.scope = add(@, "FUNCTION", n.name)], id, Top(m).node), "done")

visit_function_declaration ==
    At("FUNCTION_DECLARATION")
        /\ Commit(function_declaration(Machine, NodeAt(Top(Machine).node),
                                       added(scope, NodeAt(Top(Machine).node).name)))

variable_declaration(m, n, i) ==
    IF i # Len(n.kids) THEN Visit(Local(m, <<i + 1>>), i + 1, "loop") ELSE Goto(m, "done")

visit_variable_declaration ==
    At("VARIABLE_DECLARATION")
        /\ Commit(variable_declaration(Machine, NodeAt(Top(Machine).node), Counter(Machine)))

\* obj_alloc's initial value of a variable
initial(type) ==
    IF type = "VT_CHAR" THEN CharVal(0)
    ELSE IF type = "VT_INT" THEN IntVal(0)
    ELSE IF type = "VT_STR" THEN Val("STR_T", 0, <<>>, <<>>)
    ELSE Val("LIST_T", 0, <<>>, <<>>)

declared(m, n, id) ==
    IF id.level = 0 THEN raise(m, "crash")
    ELSE bind([m EXCEPT !.scope = add(@, "VARIABLE", n.name),
                        !.heap = obj_create(@, initial(n.operator))], id, created(m.heap))

\* obj_assign(id->object, obj); obj_decref(obj)
initialised(m, target, obj) ==
    IF obj = 0 THEN raise(m, "crash")
    ELSE IF assigns(m.heap[target], ValueOf(m.heap, obj)) # "run"
    THEN raise(m, assigns(m.heap[target], ValueOf(m.heap, obj)))
    ELSE Goto(pop(Heap(m, obj_decref(obj_assign(m.heap, target, obj, ValueOf(m.heap, obj)), obj))),
              "done")

defvar_declared(m, n) ==
    IF m.status # "run" THEN m
    ELSE IF n.kids = <<>> THEN Goto(m, "done")
    ELSE Visit(Local(m, <<Len(m.scope)>>), 1, "value")

defvar(m, n, pc) ==
    IF pc = "start" THEN defvar_declared(declared(m, n, added(m.scope, n.name)), n)
    ELSE initialised(m, identifier(m.scope, Id(Top(m).x[1], n.name)).object, peek(m))

visit_defvar == At("DEFVAR") /\ Commit(defvar(Machine, NodeAt(Top(Machine).node), Top(Machine).pc))

\* obj = pop(s) and the branch taken for obj_as_bool(obj)
if_condition(m, obj, c) ==
    IF c.status # "run" THEN raise(m, c.status)
    ELSE IF c.ival = 1 THEN Visit(Local(pop(m), <<obj>>), 2, "visited")
    ELSE Goto(pop(released(m, obj)), "done")

if_stmnt(m, pc) ==
    IF pc = "start" THEN Visit(m, 1, "condition")
    ELSE IF pc = "visited" THEN Goto(released(m, Top(m).x[1]), "done")
    ELSE IF peek(m) = 0 THEN raise(m, "crash")
    ELSE if_condition(m, peek(m), obj_as_bool(ValueOf(m.heap, peek(m))))

visit_if_stmnt == At("IF_STMNT") /\ Commit(if_stmnt(Machine, Top(Machine).pc))

\* do_break = do_continue = 0 on entry of a loop
cleared(m) == [m EXCEPT !.do_break = 0, !.do_continue = 0]

\* a loop that leaves do_break as it is at its end
loop_kept(m) == m

\* do_break = 0 at the end of a loop
loop_left(m) == [m EXCEPT !.do_break = 0]

\* obj = pop(s); condition = obj_as_bool(obj); obj_decref(obj); then the test
\* that leaves the loop, with do_break = 0 after it
loop_condition(m, obj, c) ==
    IF c.status # "run" THEN raise(m, c.status)
    ELSE IF c.ival = 0 \/ m.do_break # 0 \/ m.do_return # 0
    THEN Goto(loop_left(pop(released(m, obj))), "done")
    ELSE VisitBody(pop(released(m, obj)), 2, "body")

loop_test(m) ==
    IF peek(m) = 0 THEN raise(m, "crash")
    ELSE loop_condition(m, peek(m), obj_as_bool(ValueOf(m.heap, peek(m))))

while_stmnt(m, pc) ==
    IF pc = "start" THEN Visit(cleared(m), 1, "condition")
    ELSE IF pc = "body" THEN Visit([m EXCEPT !.do_continue = 0], 1, "condition")
    ELSE loop_test(m)

visit_while_stmnt == At("WHILE_STMNT") /\ Commit(while_stmnt(Machine, Top(Machine).pc))

do_stmnt(m, pc) ==
    IF pc = "start" THEN VisitBody(cleared(m), 2, "body")
    ELSE IF pc = "body" THEN Visit([m EXCEPT !.do_continue = 0], 1, "condition")
    ELSE loop_test(m)

visit_do_stmnt == At("DO_STMNT") /\ Commit(do_stmnt(Machine, Top(Machine).pc))

\* id = search(name), or add(VARIABLE, name); bind(id, obj_alloc(NONE_T))
for_variable(m, name, id) ==
    IF id.level # 0
    THEN Visit(Local(bind(Heap(m, obj_incref(m.heap, none)), id, none), <<0, id.level>>),
               1, "expression")
    ELSE Visit(Local(bind([m EXCEPT !.scope = add(@, "VARIABLE", name),
                                    !.heap = obj_incref(@, none)], Id(Len(m.scope), name), none),
                     <<0, Len(m.scope)>>), 1, "expression")

\* seq = pop(s); len = obj_length(seq); do_break = do_continue = 0
for_sequence(m, seq, sequence) ==
    IF m.heap[sequence].type \notin {"STR_T", "LIST_T"} THEN raise(m, "TypeError")
    ELSE Goto(Local(cleared(pop(m)),
                    <<0, Top(m).x[2], seq,
                      Len(m.heap[sequence].items) + Len(m.heap[sequence].sval)>>), "loop")

for_bound(m, id, obj, m1) ==
    IF m1.status # "run" THEN m1 ELSE VisitBody(bind(m1, id, obj), 2, "body")

\* the test of the for loop; bind(id, obj_item(seq, i)) and the body, or the
\* end of the loop
for_loop(m, n, i, level, seq, len) ==
    IF i < len /\ m.do_break = 0 /\ m.do_return = 0
    THEN for_bound(m, Id(level, n.name),
                   obj_item_address(m, obj_from_listnode(m.heap, seq), i),
                   obj_item(m, obj_from_listnode(m.heap, seq), i))
    ELSE Goto(loop_left(released(m, seq)), "done")

for_stmnt(m, n, pc) ==
    IF pc = "start" THEN for_variable(m, n.name, search(m.scope, n.name))
    ELSE IF pc = "expression"
    THEN (IF peek(m) = 0 THEN raise(m, "crash")
          ELSE for_sequence(m, peek(m), obj_from_listnode(m.heap, peek(m))))
    ELSE IF pc = "body"
    THEN Goto(Local([m EXCEPT !.do_continue = 0], [Top(m).x EXCEPT ![1] = @ + 1]), "loop")
    ELSE for_loop(m, n, Top(m).x[1], Top(m).x[2], Top(m).x[3], Top(m).x[4])

visit_for_stmnt == At("FOR_STMNT") /\ Commit(for_stmnt(Machine, NodeAt(Top(Machine).node), Top(Machine).pc))

\* ------------------------------------------------------------------------
\* main.c: the program is visited from its root, with the none object and
\* an empty global level
\* ------------------------------------------------------------------------
InitEval ==
    /\ prog \in Programs
    /\ control = <<[node |-> <<>>, type |-> "BLOCK", pc |-> "start", d |-> 0, x |-> <<>>,
                    ret |-> 0, val |-> 0, late |-> FALSE, began |-> <<0, 0>>]>>
    /\ stack = <<>>
    /\ heap = <<Object("NONE_T", 0, <<>>, <<>>)>>
    /\ scope = <<<<>>>>
    /\ do_break = 0
    /\ do_continue = 0
    /\ do_return = 0
    /\ out = <<>>
    /\ status = "run"
    /\ last = NoVisit
    /\ called = NoCall
    /\ applied = NoApply
    /\ ScanIdle
    /\ SliceIdle
    /\ AuxIdle

\* main after visit(root, s): the object left on the stack, if any, is popped
\* and released, and main returns; nothing else is released.  The history
\* records the return as the last step, with the depths of the stack.
returned_from_main(m) ==
    [m EXCEPT !.last = [NoVisit EXCEPT !.type = "MAIN", !.d0 = Len(m.stack),
                                       !.d1 = IF m.stack = <<>> THEN 0 ELSE Len(m.stack) - 1]]

main_return(m) ==
    IF m.stack = <<>> THEN returned_from_main(m)
    ELSE IF peek(m) = 0 THEN raise(m, "crash")
    ELSE pop(released(returned_from_main(m), peek(m)))

main ==
    /\ status = "done"
    /\ last.type # "MAIN"
    /\ Commit(main_return(Machine))

NextEval ==
    \/ main
    \/ visit
    \/ visit_block
    \/ visit_literal
    \/ visit_binary
    \/ visit_arglist
    \/ visit_index
    \/ visit_assignment
    \/ visit_reference
    \/ visit_function_call
    \/ visit_expression_stmnt
    \/ visit_function_declaration
    \/ visit_variable_declaration
    \/ visit_defvar
    \/ visit_if_stmnt
    \/ visit_while_stmnt
    \/ visit_do_stmnt
    \/ visit_for_stmnt
    \/ visit_print_stmnt
    \/ visit_return_stmnt
    \/ visit_pass_stmnt
    \/ visit_break_stmnt
    \/ visit_continue_stmnt

SpecEval == InitEval /\ [][NextEval]_vars

\* ------------------------------------------------------------------------
\* The operators % and == != < <= > >= on two numbers (object.c, number.c)
\* ------------------------------------------------------------------------
\* error.h: the error numbers, which are the exit codes of the process
TypeError == 2
ModNotAllowedError == 8
DivisionByZeroError == 9

\* raise: exit(number); 0 stands for no exit
error_number(error) ==
    CASE error = "TypeError" -> TypeError
      [] error = "ModNotAllowedError" -> ModNotAllowedError
      [] error = "DivisionByZeroError" -> DivisionByZeroError
      [] OTHER -> 0

\* the % of C: the quotient is truncated, the remainder has the sign of a
remainder(a, b) ==
    IF a >= 0 THEN a % (IF b < 0 THEN -b ELSE b)
    ELSE -((-a) % (IF b < 0 THEN -b ELSE b))

number_mod(op1, op2) ==
    IF ~isnan(op2) /\ obj_as_float(op2) = 0 THEN Raises("DivisionByZeroError")
    ELSE IF coerce(op1, op2) = "CHAR_T"
    THEN Returns("run", FALSE,
                 CharVal(char_t(remainder(obj_as_char(op1).ival, obj_as_char(op2).ival))))
    ELSE IF coerce(op1, op2) = "INT_T"
    THEN Returns("run", FALSE, IntVal(remainder(obj_as_int(op1).ival, obj_as_int(op2).ival)))
    ELSE Raises("ModNotAllowedError")

obj_mod(op1, op2) ==
    IF isNumber(op1) /\ isNumber(op2) THEN number_mod(op1, op2)
    ELSE Raises("TypeError")

Comparisons == {"EQ", "NEQ", "LSS", "LEQ", "GTR", "GEQ"}

\* obj_eql, obj_neq, obj_lss, obj_leq, obj_gtr and obj_geq; != is modelled
\* for numbers only
obj_comparison(operator, op1, op2) ==
    IF isNumber(op1) /\ isNumber(op2)
    THEN Returns("run", FALSE, IntVal(number_comparison(operator, op1, op2)))
    ELSE IF operator = "EQ" THEN Returns("run", FALSE, IntVal(obj_eql(op1, op2)))
    ELSE IF operator = "NEQ" THEN Raises("unmodelled")
    ELSE Raises("TypeError")

\* the numbers given to the operators: CHARs and INTs near 0, INTs near 256,
\* which no char_t holds, FLOATs from -MaxNumber / 2 to MaxNumber / 2, and NaN
Numbers ==
    {CharVal(i) : i \in -MaxNumber..MaxNumber}
    \cup {IntVal(i) : i \in -MaxNumber..MaxNumber}
    \cup {IntVal(256 + i) : i \in -MaxNumber..MaxNumber}
    \cup {FloatVal(i) : i \in -MaxNumber..MaxNumber}
    \cup {NaN}

InitNumber ==
    /\ num \in {[NoNumber EXCEPT !.operator = o, !.op1 = a, !.op2 = b] :
                    o \in Comparisons \cup {"MOD"}, a \in Numbers, b \in Numbers}
    /\ ScanIdle
    /\ SliceIdle
    /\ EvalIdle
    /\ CopyIdle
    /\ ImportIdle
    /\ CheckIdle
    /\ LateIdle

\* the call returned, or raise ended the process
number_applied(n, res) ==
    [n EXCEPT !.result = res, !.exit = error_number(res.status),
              !.status = IF res.status = "run" THEN "returned" ELSE "exit"]

apply_mod ==
    /\ num.status = ""
    /\ num.operator = "MOD"
    /\ num' = number_applied(num, obj_mod(num.op1, num.op2))
    /\ UNCHANGED <<scanVars, sliceVars, evalVars, cp, imp, chk, prs, mdl, lst, lit>>

apply_comparison ==
    /\ num.status = ""
    /\ num.operator \in Comparisons
    /\ num' = number_applied(num, obj_comparison(num.operator, num.op1, num.op2))
    /\ UNCHANGED <<scanVars, sliceVars, evalVars, cp, imp, chk, prs, mdl, lst, lit>>

NextNumber == apply_mod \/ apply_comparison

SpecNumber == InitNumber /\ [][NextNumber]_vars

\* ------------------------------------------------------------------------
\* obj_copy and the operations on the copy (object.c, list.c)
\* ------------------------------------------------------------------------
StrVal(s) == Val("STR_T", 0, s, <<>>)
ListVal(elems) == Val("LIST_T", 0, <<>>, elems)

\* the numbers and strings copied, and the elements of the lists copied
Scalars ==
    {CharVal(97), IntVal(1), IntVal(257), FloatVal(1), NaN, StrVal(<<>>), StrVal(<<"a">>)}

ListAtoms == {IntVal(1), NaN}

\* the lists of no, one and two elements, nested to depth
RECURSIVE Lists(_)
Lists(depth) ==
    IF depth = 0 THEN {}
    ELSE {ListVal(<<>>)}
         \cup {ListVal(<<e>>) : e \in ListAtoms \cup Lists(depth - 1)}
         \cup {ListVal(<<e, f>>) : e \in ListAtoms \cup Lists(depth - 1),
                                   f \in ListAtoms \cup Lists(depth - 1)}

\* the object at obj with the listnodes and objects of its list, nested
\* lists included
RECURSIVE objects_of(_, _)
objects_of(h, obj) ==
    {obj} \cup UNION {objects_of(h, h[obj].items[i]) : i \in DOMAIN h[obj].items}

\* list.c list_insert_object: the index is adjusted to the nearest possible
position(len, index) ==
    IF index <= 0 THEN 0 ELSE IF index >= len THEN len ELSE index

inserted(h, list, at, listnode) ==
    [h EXCEPT ![list].items = SubSeq(@, 1, at) \o <<listnode>> \o SubSeq(@, at + 1, Len(@))]

list_insert_object(h, list, index, obj) ==
    inserted(Append(h, [Object("LISTNODE_T", 0, <<>>, <<obj>>) EXCEPT !.refcount = 1]),
             list,
             position(Len(h[list].items),
                      IF index < 0 THEN index + Len(h[list].items) ELSE index),
             Len(h) + 1)

\* list_method's remove and the obj_decref of the object it returns; none
\* is returned for an index out of range
list_remove(h, list, index) ==
    IF index < 0 \/ index >= Len(h[list].items) THEN h
    ELSE obj_decref(list_remove_object(h, list, index),
                    obj_from_listnode(h, h[list].items[index + 1]))

InitCopy ==
    /\ cp \in {[heap |-> obj_create(<<Object("NONE_T", 0, <<>>, <<>>)>>, v), x |-> 2, y |-> 0,
                 value |-> v, operation |-> "", status |-> ""] :
                    v \in Scalars \cup Lists(MaxDepth)}
    /\ ScanIdle
    /\ SliceIdle
    /\ EvalIdle
    /\ NumberIdle
    /\ ImportIdle
    /\ CheckIdle
    /\ LateIdle

\* the copy after an operation on it
mutated(c, operation, h) == [c EXCEPT !.heap = h, !.operation = operation, !.status = "mutated"]

\* the lists of the copy and the objects of x
lists_of_copy == {o \in objects_of(cp.heap, cp.y) : cp.heap[o].type = "LIST_T"}
objects_of_x == objects_of(cp.heap, cp.x)

\* y = obj_copy(x), as visit_function_call binds a parameter
copy_object ==
    /\ cp.status = ""
    /\ cp' = [cp EXCEPT !.heap = obj_copy(@, cp.x), !.y = created(cp.heap),
                        !.operation = "copy", !.status = "copied"]
    /\ UNCHANGED <<scanVars, sliceVars, evalVars, num, imp, chk, prs, mdl, lst, lit>>

\* list.append(value) on a list of the copy: append(obj, obj_copy(value))
copy_append ==
    /\ cp.status = "copied"
    /\ \E list \in lists_of_copy, value \in objects_of_x :
           cp' = mutated(cp, "append",
                         list_append_object(obj_copy(cp.heap, value), list, created(cp.heap)))
    /\ UNCHANGED <<scanVars, sliceVars, evalVars, num, imp, chk, prs, mdl, lst, lit>>

\* list.insert(index, value): insert(obj, index, obj_copy(value))
copy_insert ==
    /\ cp.status = "copied"
    /\ \E list \in lists_of_copy, value \in objects_of_x, index \in -1..1 :
           cp' = mutated(cp, "insert",
                         list_insert_object(obj_copy(cp.heap, value), list, index,
                                            created(cp.heap)))
    /\ UNCHANGED <<scanVars, sliceVars, evalVars, num, imp, chk, prs, mdl, lst, lit>>

\* list.remove(index), the object removed released
copy_remove ==
    /\ cp.status = "copied"
    /\ \E list \in lists_of_copy, index \in -1..1 :
           cp' = mutated(cp, "remove",
                         list_remove(cp.heap, list,
                                     IF index < 0 THEN index + Len(cp.heap[list].items)
                                     ELSE index))
    /\ UNCHANGED <<scanVars, sliceVars, evalVars, num, imp, chk, prs, mdl, lst, lit>>

\* target = value for target the copy, an element of it or a list in it
copy_assign ==
    /\ cp.status = "copied"
    /\ \E target \in objects_of(cp.heap, cp.y), value \in objects_of_x :
           /\ assigns(cp.heap[target], ValueOf(cp.heap, value)) = "run"
           /\ cp' = mutated(cp, "assign",
                            obj_assign(cp.heap, target, value, ValueOf(cp.heap, value)))
    /\ UNCHANGED <<scanVars, sliceVars, evalVars, num, imp, chk, prs, mdl, lst, lit>>

NextCopy == copy_object \/ copy_append \/ copy_insert \/ copy_remove \/ copy_assign

SpecCopy == InitCopy /\ [][NextCopy]_vars

\* ------------------------------------------------------------------------
\* import and parse (module.c, parse.c, scanner.c).  A file is the tokens
\* its text scans to; read_next_token is reduced to what it leaves in the
\* module and in the scanner for each of them.
\* ------------------------------------------------------------------------
Tok(t, lexeme) == [token |-> t, string |-> lexeme]

\* pass / import "name" / if 1 NEWLINE INDENT import "name" NEWLINE DEDENT
Pass == <<Tok("PASS", ""), Tok("NEWLINE", "")>>
ImportOf(name) == <<Tok("IMPORT", ""), Tok("STR", name), Tok("NEWLINE", "")>>
Guarded(name) ==
    <<Tok("IF", ""), Tok("INT", "1"), Tok("NEWLINE", ""), Tok("INDENT", "")>>
    \o ImportOf(name) \o <<Tok("DEDENT", "")>>

\* the files that exist, and the names the import statements give
FileNames == {"a", "b"}
ImportNames == {"a", "b", "c"}

StatementForms == {Pass, Guarded("b")} \cup {ImportOf(name) : name \in ImportNames}

RECURSIVE Sources(_)
Sources(statements) ==
    IF statements = 0 THEN {<<>>}
    ELSE Sources(statements - 1)
         \cup {t \o f : t \in Sources(statements - 1), f \in StatementForms}

\* module.c: the module object of a file just loaded
Module(name, tokens) == [name |-> name, code |-> tokens, pos |-> 0, bol |-> 0, lineno |-> 1]

\* scanner.c: the global scanner as the program starts; module 0 is NULL
Scanner ==
    [module |-> 0, token |-> "UNKNOWN", peeked |-> "UNKNOWN", at_bol |-> TRUE,
     string |-> "", indentlevel |-> 0, indentation |-> <<0, 0, 0>>]

scanner_init(sc, m) ==
    [sc EXCEPT !.module = m, !.token = "UNKNOWN", !.peeked = "UNKNOWN", !.at_bol = TRUE,
               !.string = "", !.indentlevel = 0, !.indentation[1] = 0]

scanner_save(sc) == sc

\* a scanner that stays as the module parsed left it
scanner_kept(sc, saved) == sc

scanner_load(sc, saved) == saved

\* module.c search: the module of that name, 0 for NULL
module_search(modules, name) ==
    IF \E m \in DOMAIN modules : modules[m].name = name
    THEN CHOOSE m \in DOMAIN modules : modules[m].name = name
    ELSE 0

\* the token read_next_token returns, ENDMARKER at the end of the code
token_of(module) ==
    IF module.pos >= Len(module.code) THEN Tok("ENDMARKER", "")
    ELSE module.code[module.pos + 1]

\* module.c nextch: the first character after a newline starts a line
module_nextch(module) ==
    IF module.pos >= Len(module.code) THEN module
    ELSE IF module.pos > 0 /\ module.code[module.pos].token = "NEWLINE"
    THEN [module EXCEPT !.bol = module.pos, !.lineno = @ + 1, !.pos = @ + 1]
    ELSE [module EXCEPT !.pos = @ + 1]

\* what read_next_token leaves in the scanner for the token tok
tokenised(sc, tok) ==
    [sc EXCEPT !.string = tok.string,
               !.at_bol = tok.token = "NEWLINE",
               !.indentlevel = CASE tok.token = "INDENT" -> @ + 1
                                 [] tok.token = "DEDENT" -> @ - 1
                                 [] OTHER -> @,
               !.indentation = IF tok.token = "INDENT"
                               THEN [@ EXCEPT ![sc.indentlevel + 2] = TABSIZE * (sc.indentlevel + 1)]
                               ELSE @]

token_scanned(i) ==
    [i EXCEPT !.modules[i.scanner.module] = module_nextch(@),
              !.scanner = tokenised(@, token_of(i.modules[i.scanner.module]))]

scanner_next(i) ==
    IF i.scanner.peeked = "UNKNOWN"
    THEN [token_scanned(i) EXCEPT
            !.scanner.token = token_of(i.modules[i.scanner.module]).token]
    ELSE [i EXCEPT !.scanner.token = i.scanner.peeked, !.scanner.peeked = "UNKNOWN"]

\* the global scanner, and pos, bol and lineno of the module it reads
scanner_state(i) ==
    [scanner |-> i.scanner,
     module |-> IF i.scanner.module = 0 THEN <<>>
                ELSE <<i.modules[i.scanner.module].pos, i.modules[i.scanner.module].bol,
                       i.modules[i.scanner.module].lineno>>]

\* module.import(name) and the start of parse(m): save, init, next
parse(i, name) ==
    IF name \notin DOMAIN i.files THEN [i EXCEPT !.status = "SystemError"]
    ELSE scanner_next([i EXCEPT
            !.modules = Append(@, Module(name, i.files[name])),
            !.saved = Append(@, [s |-> scanner_save(i.scanner), before |-> scanner_state(i)]),
            !.scanner = scanner_init(@, Len(i.modules) + 1),
            !.status = "run"])

\* expect(t): the next token, or SyntaxError
expect(i, t) ==
    IF i.status # "run" THEN i
    ELSE IF i.scanner.token = t THEN scanner_next(i)
    ELSE [i EXCEPT !.status = "SyntaxError"]

\* the end of parse: load, and the state the caller finds
parse_end(i) ==
    [i EXCEPT !.scanner = scanner_load(@, i.saved[Len(i.saved)].s),
              !.saved = SubSeq(@, 1, Len(@) - 1)]

parse_returned(i, before) ==
    [i EXCEPT !.parsed = [before |-> before, after |-> scanner_state(i), returned |-> TRUE],
              !.status = IF i.saved = <<>> THEN "done" ELSE "run"]

InitImport ==
    /\ imp \in {[files |-> f, modules |-> <<>>, scanner |-> Scanner, saved |-> <<>>,
                  status |-> "start",
                  imported |-> [name |-> "", found |-> FALSE],
                  parsed |-> [before |-> <<>>, after |-> <<>>, returned |-> FALSE]] :
                    f \in [FileNames -> Sources(MaxStatements)]}
    /\ ScanIdle
    /\ SliceIdle
    /\ EvalIdle
    /\ NumberIdle
    /\ CopyIdle
    /\ CheckIdle
    /\ LateIdle

\* main: root = parse(module.import(*argv))
main_import ==
    /\ imp.status = "start"
    /\ imp' = parse(imp, "a")
    /\ UNCHANGED <<scanVars, sliceVars, evalVars, num, cp, chk, prs, mdl, lst, lit>>

\* statement, for a token that starts or continues another statement than
\* import: the token is accepted
statement ==
    /\ imp.status = "run"
    /\ imp.scanner.token \notin {"IMPORT", "ENDMARKER"}
    /\ imp' = scanner_next(imp)
    /\ UNCHANGED <<scanVars, sliceVars, evalVars, num, cp, chk, prs, mdl, lst, lit>>

\* accept(IMPORT) and import_stmnt up to the call of parse
imported(i) ==
    IF module_search(i.modules, i.scanner.string) # 0
    THEN [i EXCEPT !.status = "SyntaxError",
                   !.imported = [name |-> i.scanner.string, found |-> TRUE]]
    ELSE parse([i EXCEPT !.imported = [name |-> i.scanner.string, found |-> FALSE]],
               i.scanner.string)

import_stmnt ==
    /\ imp.status = "run"
    /\ imp.scanner.token = "IMPORT"
    /\ imp' = imported(scanner_next(imp))
    /\ UNCHANGED <<scanVars, sliceVars, evalVars, num, cp, chk, prs, mdl, lst, lit>>

\* accept(ENDMARKER) ends block; parse loads the scanner saved and returns,
\* to main or to import_stmnt, which expects the STR and the NEWLINE
parse_return ==
    /\ imp.status = "run"
    /\ imp.scanner.token = "ENDMARKER"
    /\ imp' = IF Len(imp.saved) = 1
               THEN parse_returned(parse_end(scanner_next(imp)), imp.saved[Len(imp.saved)].before)
               ELSE expect(expect(parse_returned(parse_end(scanner_next(imp)),
                                                 imp.saved[Len(imp.saved)].before),
                                  "STR"), "NEWLINE")
    /\ UNCHANGED <<scanVars, sliceVars, evalVars, num, cp, chk, prs, mdl, lst, lit>>

NextImport == main_import \/ statement \/ import_stmnt \/ parse_return

SpecImport == InitImport /\ [][NextImport]_vars

\* ------------------------------------------------------------------------
\* The static check (visit.c check and the check_ handlers, main.c)
\* ------------------------------------------------------------------------
\* def fib(n) / if n < 2 / return n // return fib(n - 1) + fib(n - 2) // print fib(3)
Fibonacci ==
    <<FunctionDeclaration("fib", <<"n">>,
        <<IfStmnt(Binary("LSS", Reference("n"), Number("2")), <<ReturnStmnt(<<Reference("n")>>)>>),
          ReturnStmnt(<<Binary("ADD",
              FunctionCall("fib", <<Binary("SUB", Reference("n"), Number("1"))>>),
              FunctionCall("fib", <<Binary("SUB", Reference("n"), Number("2"))>>))>>)>>),
      Show(FunctionCall("fib", <<Number("3")>>))>>

\* def f() / return 1 // def g() / return f() + f() // print g() + g()
CallsOfCalls ==
    <<FunctionDeclaration("f", <<>>, <<ReturnStmnt(<<Number("1")>>)>>),
      FunctionDeclaration("g", <<>>,
        <<ReturnStmnt(<<Binary("ADD", FunctionCall("f", <<>>), FunctionCall("f", <<>>))>>)>>),
      Show(Binary("ADD", FunctionCall("g", <<>>), FunctionCall("g", <<>>)))>>

\* def f() / return g() // def g() / return f() // print f()
CallsForward ==
    <<FunctionDeclaration("f", <<>>, <<ReturnStmnt(<<FunctionCall("g", <<>>)>>)>>),
      FunctionDeclaration("g", <<>>, <<ReturnStmnt(<<FunctionCall("f", <<>>)>>)>>),
      Show(FunctionCall("f", <<>>))>>

\* int x / print x() and def f(a) / pass // print f()
CallsVariable == <<VariableDeclaration("VT_INT", "x", <<>>), Show(FunctionCall("x", <<>>))>>
CallsShort == <<FunctionDeclaration("f", <<"a">>, <<PassStmnt>>), Show(FunctionCall("f", <<>>))>>

CheckPrograms ==
    Programs \cup {Block(p) : p \in {Fibonacci, CallsOfCalls, CallsForward, CallsVariable,
                                       CallsShort}}

\* a call of check in progress: the node, whether its handler has started,
\* the nodes the handler has still to check and whether the handler removes
\* a scope level at its end
Checking(root, path) ==
    [node |-> path, type |-> Descend(root, path).type, started |-> FALSE,
     todo |-> <<>>, level |-> FALSE]

RECURSIVE add_all(_, _)
add_all(sc, names) ==
    IF names = <<>> THEN sc ELSE add_all(add(sc, "VARIABLE", Head(names)), Tail(names))

\* the handler has started and will check the nodes at todo
check_started(c, todo) ==
    [c EXCEPT !.control[Len(c.control)].started = TRUE, !.control[Len(c.control)].todo = todo]

check_raise(c, error) == [c EXCEPT !.status = error]

\* the paths of the kids at the indexes given
kids_at(path, indexes) == [i \in DOMAIN indexes |-> Append(path, indexes[i])]

\* the order in which a handler that only checks its kids checks them
check_order(n) ==
    IF n.type = "DO_STMNT" THEN <<2, 1>>
    ELSE [i \in 1..Len(n.kids) |-> i]

literal_checked(c, n) ==
    IF n.name = "VT_CHAR" /\ str_to_char(n.val).status # "run"
    THEN check_raise(c, str_to_char(n.val).status)
    ELSE IF n.name = "VT_INT" /\ str_to_int(n.val).status # "run"
    THEN check_raise(c, str_to_int(n.val).status)
    ELSE check_started(c, <<>>)

reference_checked(c, id) ==
    IF id.level = 0 THEN check_raise(c, "NameError")
    ELSE IF identifier(c.scope, id).type # "VARIABLE" THEN check_raise(c, "TypeError")
    ELSE check_started(c, <<>>)

defvar_checked(c, n, path, id) ==
    IF id.level = 0 THEN check_raise(c, "NameError")
    ELSE check_started([c EXCEPT !.scope = add(@, "VARIABLE", n.name)],
                       kids_at(path, check_order(n)))

for_stmnt_checked(c, n, path) ==
    check_started([c EXCEPT !.scope = IF search(c.scope, n.name).level = 0
                                      THEN add(@, "VARIABLE", n.name) ELSE @],
                  kids_at(path, check_order(n)))

\* scope.append_level() in a handler that removes the level at its end
level_appended(c) ==
    [c EXCEPT !.scope = appendScopeLevel(@), !.appended = @ + 1,
              !.control[Len(c.control)].level = TRUE]

with_arguments(c, names) == [c EXCEPT !.scope = add_all(@, names)]

\* identifier.bind(id, n) for a function
bound(c, id, path) == [c EXCEPT !.scope[id.level][index_of(c.scope, id)].node = path]

function_declaration_checked(c, n, path, id) ==
    IF id.level = 0 THEN check_raise(c, "NameError")
    ELSE check_started(with_arguments(level_appended(
                           bound([c EXCEPT !.scope = add(@, "FUNCTION", n.name)], id, path)),
                                      n.val),
                       <<Append(path, 1)>>)

\* the checked flag of a FUNCTION_CALL node set, and a flag that is not set
unmarked(flags, path) == flags

marked(flags, path) == flags \cup {path}

\* the function of a call is known, is a function and takes the arguments
function_call_body(c, n, path, fdecl) ==
    IF fdecl = <<>> THEN check_raise(c, "crash")
    ELSE IF Len(Descend(c.prog, fdecl).val) # Len(n.kids) THEN check_raise(c, "SyntaxError")
    ELSE check_started(with_arguments(level_appended([c EXCEPT !.bodies = Append(@, path)]),
                                      Descend(c.prog, fdecl).val),
                       <<Append(fdecl, 1)>>)

function_call_checked(c, n, path, id) ==
    IF path \in c.checked THEN check_started(c, <<>>)
    ELSE IF id.level = 0 THEN check_raise([c EXCEPT !.checked = marked(@, path)], "NameError")
    ELSE function_call_body([c EXCEPT !.checked = marked(@, path)], n, path,
                            identifier(c.scope, id).node)

\* the end of a handler, and of check(root): main removes the global level
check_left(c) ==
    [c EXCEPT !.scope = IF c.control[Len(c.control)].level \/ Len(c.control) = 1
                        THEN removeScopeLevel(@) ELSE @,
              !.removed = IF c.control[Len(c.control)].level THEN @ + 1 ELSE @,
              !.control = SubSeq(@, 1, Len(@) - 1),
              !.status = IF Len(c.control) = 1 THEN "done" ELSE "run"]

\* check(n) for the first of the nodes a handler has still to check
check_entered(c, todo) ==
    [c EXCEPT !.control = Append([@ EXCEPT ![Len(@)].todo = Tail(todo)],
                                 Checking(c.prog, Head(todo)))]

\* main before check(root)
CheckOf(p) ==
    [prog |-> p, control |-> <<Checking(p, <<>>)>>, scope |-> <<<<>>>>,
     checked |-> {}, bodies |-> <<>>, appended |-> 0, removed |-> 0, status |-> "run"]

\* the next step of the check: a handler starts, checks its next node or
\* returns
check_handler(c, top, n) ==
    IF top.started
    THEN (IF top.todo # <<>> THEN check_entered(c, top.todo) ELSE check_left(c))
    ELSE IF top.type = "LITERAL" THEN literal_checked(c, n)
    ELSE IF top.type = "REFERENCE" THEN reference_checked(c, search(c.scope, n.name))
    ELSE IF top.type = "DEFVAR" THEN defvar_checked(c, n, top.node, added(c.scope, n.name))
    ELSE IF top.type = "FOR_STMNT" THEN for_stmnt_checked(c, n, top.node)
    ELSE IF top.type = "FUNCTION_DECLARATION"
    THEN function_declaration_checked(c, n, top.node, added(c.scope, n.name))
    ELSE IF top.type = "FUNCTION_CALL"
    THEN function_call_checked(c, n, top.node, search(c.scope, n.name))
    ELSE check_started(c, kids_at(top.node, check_order(n)))

RECURSIVE check_run(_, _)
check_run(c, steps) ==
    IF c.status # "run" \/ steps = 0 THEN c
    ELSE IF steps = 1
    THEN check_handler(c, c.control[Len(c.control)],
                       Descend(c.prog, c.control[Len(c.control)].node))
    ELSE check_run(check_run(c, steps \div 2), steps - (steps \div 2))

\* check(root) returns: the program is accepted
accepted(p) == check_run(CheckOf(p), MaxChecks).status = "done"

InitCheck ==
    /\ chk \in {CheckOf(p) : p \in CheckPrograms}
    /\ ScanIdle
    /\ SliceIdle
    /\ EvalIdle
    /\ NumberIdle
    /\ CopyIdle
    /\ ImportIdle
    /\ LateIdle

CheckTop == chk.control[Len(chk.control)]
CheckNode == Descend(chk.prog, CheckTop.node)

\* the handler of a node of one of the types starts
CheckAt(types) ==
    /\ chk # <<>>
    /\ chk.status = "run"
    /\ chk.control # <<>>
    /\ ~CheckTop.started
    /\ CheckTop.type \in types

check_children ==
    /\ CheckAt({"BLOCK", "BINARY", "ARGLIST", "INDEX", "ASSIGNMENT", "EXPRESSION_STMNT",
                 "VARIABLE_DECLARATION", "IF_STMNT", "WHILE_STMNT", "DO_STMNT",
                 "PRINT_STMNT", "RETURN_STMNT", "PASS_STMNT", "BREAK_STMNT",
                 "CONTINUE_STMNT"})
    /\ chk' = check_started(chk, kids_at(CheckTop.node, check_order(CheckNode)))
    /\ UNCHANGED <<scanVars, sliceVars, evalVars, num, cp, imp, prs, mdl, lst, lit>>

check_literal ==
    /\ CheckAt({"LITERAL"})
    /\ chk' = literal_checked(chk, CheckNode)
    /\ UNCHANGED <<scanVars, sliceVars, evalVars, num, cp, imp, prs, mdl, lst, lit>>

check_reference ==
    /\ CheckAt({"REFERENCE"})
    /\ chk' = reference_checked(chk, search(chk.scope, CheckNode.name))
    /\ UNCHANGED <<scanVars, sliceVars, evalVars, num, cp, imp, prs, mdl, lst, lit>>

check_defvar ==
    /\ CheckAt({"DEFVAR"})
    /\ chk' = defvar_checked(chk, CheckNode, CheckTop.node, added(chk.scope, CheckNode.name))
    /\ UNCHANGED <<scanVars, sliceVars, evalVars, num, cp, imp, prs, mdl, lst, lit>>

check_for_stmnt ==
    /\ CheckAt({"FOR_STMNT"})
    /\ chk' = for_stmnt_checked(chk, CheckNode, CheckTop.node)
    /\ UNCHANGED <<scanVars, sliceVars, evalVars, num, cp, imp, prs, mdl, lst, lit>>

check_function_declaration ==
    /\ CheckAt({"FUNCTION_DECLARATION"})
    /\ chk' = function_declaration_checked(chk, CheckNode, CheckTop.node,
                                            added(chk.scope, CheckNode.name))
    /\ UNCHANGED <<scanVars, sliceVars, evalVars, num, cp, imp, prs, mdl, lst, lit>>

check_function_call ==
    /\ CheckAt({"FUNCTION_CALL"})
    /\ chk' = function_call_checked(chk, CheckNode, CheckTop.node,
                                     search(chk.scope, CheckNode.name))
    /\ UNCHANGED <<scanVars, sliceVars, evalVars, num, cp, imp, prs, mdl, lst, lit>>

\* check(n) for the next node a handler checks
check ==
    /\ chk # <<>>
    /\ chk.status = "run"
    /\ chk.control # <<>>
    /\ CheckTop.started
    /\ CheckTop.todo # <<>>
    /\ Len(chk.control) <= MaxVisits
    /\ chk' = check_entered(chk, CheckTop.todo)
    /\ UNCHANGED <<scanVars, sliceVars, evalVars, num, cp, imp, prs, mdl, lst, lit>>

\* a handler returns
check_return ==
    /\ chk # <<>>
    /\ chk.status = "run"
    /\ chk.control # <<>>
    /\ CheckTop.started
    /\ CheckTop.todo = <<>>
    /\ chk' = check_left(chk)
    /\ UNCHANGED <<scanVars, sliceVars, evalVars, num, cp, imp, prs, mdl, lst, lit>>

NextCheck ==
    \/ check_children
    \/ check_literal
    \/ check_reference
    \/ check_defvar
    \/ check_for_stmnt
    \/ check_function_declaration
    \/ check_function_call
    \/ check
    \/ check_return

SpecCheck == InitCheck /\ [][NextCheck]_vars

\* check is called again until the check has ended
LiveCheck == SpecCheck /\ WF_vars(NextCheck)

\* ------------------------------------------------------------------------
\* The parser of expressions (parse.c).  ts is the tokens not yet accepted,
\* its head is scanner.token; a function returns the node, the tokens left
\* and "run" or the error raised.
\* ------------------------------------------------------------------------
Parsed(node, ts, state) == [node |-> node, ts |-> ts, status |-> state]

token_now(ts) == IF ts = <<>> THEN "ENDMARKER" ELSE Head(ts).token

Unary(operator, operand) == Node("UNARY", "", operator, <<>>, <<operand>>)

\* the operators of each level, by token
UnaryOperators == [NOT |-> "UNOT", MINUS |-> "UMINUS", PLUS |-> "UPLUS"]
MultiplicationOperators == [STAR |-> "MUL", SLASH |-> "DIV", PERCENT |-> "MOD"]
AdditionOperators == [PLUS |-> "ADD", MINUS |-> "SUB"]
RelationalOperators ==
    [LESS |-> "LSS", LESSEQUAL |-> "LEQ", GREATER |-> "GTR", GREATEREQUAL |-> "GEQ"]
EqualityOperators == ("EQEQUAL" :> "EQ") @@ ("NOTEQUAL" :> "NEQ") @@ ("IN" :> "OP_IN")
LogicalAndOperators == [AND |-> "LOGICAL_AND"]
LogicalOrOperators == [OR |-> "LOGICAL_OR"]

\* identifiers and literals; the other primaries are not parsed here
primary_expr(ts) ==
    IF token_now(ts) = "IDENTIFIER" THEN Parsed(Reference(Head(ts).string), Tail(ts), "run")
    ELSE IF token_now(ts) = "INT" THEN Parsed(IntLiteral(Head(ts).string), Tail(ts), "run")
    ELSE IF token_now(ts) \in {"CHAR", "FLOAT", "STR", "LSQB", "LPAR"}
    THEN Parsed(<<>>, ts, "unmodelled")
    ELSE Parsed(<<>>, ts, "SyntaxError")

\* create(UNARY, operator, operand) and create(BINARY, operator, left, right)
unary_created(operator, r) ==
    IF r.status # "run" THEN r ELSE Parsed(Unary(operator, r.node), r.ts, "run")

binary_created(operator, l, r) ==
    IF r.status # "run" THEN r ELSE Parsed(Binary(operator, l, r.node), r.ts, "run")

unary_expr(ts) ==
    IF token_now(ts) \in DOMAIN UnaryOperators
    THEN unary_created(UnaryOperators[token_now(ts)], primary_expr(Tail(ts)))
    ELSE primary_expr(ts)

RECURSIVE multiplication_loop(_)
multiplication_loop(v) ==
    IF v.status = "run" /\ token_now(v.ts) \in DOMAIN MultiplicationOperators
    THEN multiplication_loop(binary_created(MultiplicationOperators[token_now(v.ts)], v.node,
                                            unary_expr(Tail(v.ts))))
    ELSE v

multiplication_expr(ts) == multiplication_loop(unary_expr(ts))

RECURSIVE addition_loop(_)
addition_loop(v) ==
    IF v.status = "run" /\ token_now(v.ts) \in DOMAIN AdditionOperators
    THEN addition_loop(binary_created(AdditionOperators[token_now(v.ts)], v.node,
                                      multiplication_expr(Tail(v.ts))))
    ELSE v

addition_expr(ts) == addition_loop(multiplication_expr(ts))

RECURSIVE relational_expr(_)
RECURSIVE relational_loop(_)
relational_loop(v) ==
    IF v.status = "run" /\ token_now(v.ts) \in DOMAIN RelationalOperators
    THEN relational_loop(binary_created(RelationalOperators[token_now(v.ts)], v.node,
                                        relational_expr(Tail(v.ts))))
    ELSE v

relational_expr(ts) == relational_loop(addition_expr(ts))

RECURSIVE equality_loop(_)
equality_loop(v) ==
    IF v.status = "run" /\ token_now(v.ts) \in DOMAIN EqualityOperators
    THEN equality_loop(binary_created(EqualityOperators[token_now(v.ts)], v.node,
                                      relational_expr(Tail(v.ts))))
    ELSE v

equality_expr(ts) == equality_loop(relational_expr(ts))

RECURSIVE logical_and_expr(_)
RECURSIVE logical_and_loop(_)
logical_and_loop(v) ==
    IF v.status = "run" /\ token_now(v.ts) \in DOMAIN LogicalAndOperators
    THEN logical_and_loop(binary_created(LogicalAndOperators[token_now(v.ts)], v.node,
                                         logical_and_expr(Tail(v.ts))))
    ELSE v

logical_and_expr(ts) == logical_and_loop(equality_expr(ts))

RECURSIVE logical_or_expr(_)
RECURSIVE logical_or_loop(_)
logical_or_loop(v) ==
    IF v.status = "run" /\ token_now(v.ts) \in DOMAIN LogicalOrOperators
    THEN logical_or_loop(binary_created(LogicalOrOperators[token_now(v.ts)], v.node,
                                        logical_or_expr(Tail(v.ts))))
    ELSE v

logical_or_expr(ts) == logical_or_loop(logical_and_expr(ts))

\* the levels of binary operators, the lowest precedence first
Levels ==
    <<LogicalOrOperators, LogicalAndOperators, EqualityOperators, RelationalOperators,
      AdditionOperators, MultiplicationOperators>>

BinaryTokens == UNION {DOMAIN Levels[l] : l \in DOMAIN Levels}

\* a op1 b op2 c
Chained(op1, op2) ==
    <<Tok("IDENTIFIER", "a"), Tok(op1, ""), Tok("IDENTIFIER", "b"), Tok(op2, ""),
      Tok("IDENTIFIER", "c"), Tok("NEWLINE", "")>>

InitParse ==
    /\ prs \in {[tokens |-> Chained(op1, op2), op1 |-> op1, op2 |-> op2, node |-> <<>>,
                  status |-> "start"] : op1 \in BinaryTokens, op2 \in BinaryTokens}
    /\ ScanIdle
    /\ SliceIdle
    /\ EvalIdle
    /\ NumberIdle
    /\ CopyIdle
    /\ ImportIdle
    /\ CheckIdle
    /\ ModuleIdle
    /\ ListIdle
    /\ LiteralIdle

expression_parsed(p, r) ==
    [p EXCEPT !.node = r.node, !.status = IF r.status = "run" THEN "done" ELSE r.status]

\* the expression is parsed
parse_expression ==
    /\ prs # <<>>
    /\ prs.status = "start"
    /\ prs' = expression_parsed(prs, logical_or_expr(prs.tokens))
    /\ UNCHANGED <<scanVars, sliceVars, evalVars, num, cp, imp, chk, mdl, lst, lit>>

NextParse == parse_expression

SpecParse == InitParse /\ [][NextParse]_vars

\* ------------------------------------------------------------------------
\* The character reader of module.c used on its own: nextch, and pushch of
\* the character nextch returned.  The reader's state is code, pos, bol and
\* lineno; the scanner's other variables stay as scanner_init left them.
\* ------------------------------------------------------------------------
tokenVars == <<token, peeked, at_bol, string, indentlevel, indentation, past,
               scan_status, cur, lines_seen, history>>

Reader == [pos |-> pos, bol |-> bol, lineno |-> lineno]

\* the files of at most MaxLen characters
ModuleFiles == UNION {[1..n -> {"a", "\n"}] : n \in 0..MaxLen}

\* assert(module->code[module->pos] == (char)ch): code[size] is 0, and EOF
\* is no character of the code
pushch_assert(m, ch) == m.pos < Len(code) /\ code[m.pos + 1] = ch

InitModule ==
    /\ code \in {load(f) : f \in ModuleFiles}
    /\ ScannerInit
    /\ mdl = [op |-> "load", ch |-> "", pos |-> 0, lineno |-> 1, asserted |-> TRUE,
              status |-> "run"]
    /\ SliceIdle
    /\ EvalIdle
    /\ NumberIdle
    /\ CopyIdle
    /\ ImportIdle
    /\ CheckIdle
    /\ ParseIdle
    /\ ListIdle
    /\ LiteralIdle

\* ch = nextch()
read_ch ==
    /\ mdl # <<>>
    /\ mdl.status = "run"
    /\ pos' = nextch(Reader).m.pos
    /\ bol' = nextch(Reader).m.bol
    /\ lineno' = nextch(Reader).m.lineno
    /\ mdl' = [mdl EXCEPT !.op = "nextch", !.ch = nextch(Reader).ch, !.pos = pos,
                          !.lineno = lineno]
    /\ UNCHANGED <<code, tokenVars, sliceVars, evalVars, num, cp, imp, chk, prs, lst, lit>>

\* pushch(ch) of the character just read; a failed assert aborts the
\* program unless the build defines NDEBUG
unread_ch ==
    /\ mdl # <<>>
    /\ mdl.status = "run"
    /\ mdl.op = "nextch"
    /\ pos' = pushch(Reader, mdl.ch).pos
    /\ bol' = pushch(Reader, mdl.ch).bol
    /\ lineno' = pushch(Reader, mdl.ch).lineno
    /\ \E ndebug \in BOOLEAN :
          mdl' = [mdl EXCEPT !.op = "pushch",
                             !.asserted = pushch_assert(pushch(Reader, mdl.ch), mdl.ch),
                             !.status = IF pushch_assert(pushch(Reader, mdl.ch), mdl.ch)
                                           \/ ndebug
                                        THEN "run" ELSE "abort"]
    /\ UNCHANGED <<code, tokenVars, sliceVars, evalVars, num, cp, imp, chk, prs, lst, lit>>

NextModule == read_ch \/ unread_ch

SpecModule == InitModule /\ [][NextModule]_vars

\* ------------------------------------------------------------------------
\* A character literal from the source to the CHAR object: read_character
\* of the scanner, create of the LITERAL node, check_literal and
\* visit_literal.
\* ------------------------------------------------------------------------
\* strdup: the characters before the first NUL
RECURSIVE strdup(_)
strdup(s) == IF s = <<>> \/ Head(s) = "NUL" THEN <<>> ELSE <<Head(s)>> \o strdup(Tail(s))

\* what stands between the quotes: one character, a backslash and a
\* character, two characters or nothing
LiteralBodies ==
    {<<c>> : c \in Letters \cup Digits \cup {" ", "\"", "#"}}
        \cup {<<"\\", e>> : e \in {"0", "a", "b", "f", "n", "r", "t", "v", "\\", "'", "\"",
                                  "x", "1"}}
        \cup {<<"a", "b">>, <<>>}

Quoted(body) == <<"'">> \o body \o <<"'">>

InitLiteral ==
    /\ code \in {load(Quoted(b)) : b \in LiteralBodies}
    /\ ScannerInit
    /\ lit = [string |-> <<>>, accepted |-> FALSE, value |-> <<>>, ival |-> 0,
              status |-> "start"]
    /\ SliceIdle
    /\ EvalIdle
    /\ NumberIdle
    /\ CopyIdle
    /\ ImportIdle
    /\ CheckIdle
    /\ ParseIdle
    /\ ModuleIdle
    /\ ListIdle

\* the scanner has read the opening quote and calls read_character
character_read(l, r) ==
    [l EXCEPT !.string = r.str, !.accepted = r.status = "run",
              !.status = IF r.status = "run" THEN "scanned" ELSE r.status]

scan_literal ==
    /\ lit # <<>>
    /\ lit.status = "start"
    /\ pos' = read_character(nextch(Reader).m).m.pos
    /\ bol' = read_character(nextch(Reader).m).m.bol
    /\ lineno' = read_character(nextch(Reader).m).m.lineno
    /\ lit' = character_read(lit, read_character(nextch(Reader).m))
    /\ UNCHANGED <<code, tokenVars, sliceVars, evalVars, num, cp, imp, chk, prs, mdl, lst>>

\* create(LITERAL, VT_CHAR, scanner.string)
create_literal ==
    /\ lit # <<>>
    /\ lit.status = "scanned"
    /\ lit' = [lit EXCEPT !.value = strdup(lit.string), !.status = "created"]
    /\ UNCHANGED <<scanVars, sliceVars, evalVars, num, cp, imp, chk, prs, mdl, lst>>

character_checked(l, c) ==
    [l EXCEPT !.status = IF c.status = "run" THEN "checked" ELSE c.status]

\* check_literal of the node
check_character ==
    /\ lit # <<>>
    /\ lit.status = "created"
    /\ lit' = character_checked(lit, str_to_char(lit.value))
    /\ UNCHANGED <<scanVars, sliceVars, evalVars, num, cp, imp, chk, prs, mdl, lst>>

character_visited(l, c) ==
    [l EXCEPT !.ival = c.ival, !.status = IF c.status = "run" THEN "done" ELSE c.status]

\* visit_literal of the node
visit_character ==
    /\ lit # <<>>
    /\ lit.status = "checked"
    /\ lit' = character_visited(lit, str_to_char(lit.value))
    /\ UNCHANGED <<scanVars, sliceVars, evalVars, num, cp, imp, chk, prs, mdl, lst>>

NextLiteral == scan_literal \/ create_literal \/ check_character \/ visit_character

SpecLiteral == InitLiteral /\ [][NextLiteral]_vars

\* ------------------------------------------------------------------------
\* The doubly linked lists of list.c.  l.nodes are the listnodes allocated,
\* a listnode's address is its index and 0 is NULL; l.lists are two lists,
\* each with head and tail; l.count is the number of objects put into each
\* list and not removed from it; l.op is the operation applied last.
\* ------------------------------------------------------------------------
ListNode(obj) == [obj |-> obj, next |-> 0, prev |-> 0, freed |-> FALSE]

\* obj_create(LISTNODE_T, obj): the new listnode is the last of l.nodes
listnode_created(l, obj) == [l EXCEPT !.nodes = Append(@, ListNode(obj))]

\* the listnodes from p on, following next; a list that does not end is cut
\* after fuel listnodes
RECURSIVE Forward(_, _, _)
Forward(nodes, p, fuel) ==
    IF p = 0 \/ fuel = 0 THEN <<>>
    ELSE <<p>> \o Forward(nodes, nodes[p].next, fuel - 1)

\* the listnodes from p on, following prev
RECURSIVE Backward(_, _, _)
Backward(nodes, p, fuel) ==
    IF p = 0 \/ fuel = 0 THEN <<>>
    ELSE <<p>> \o Backward(nodes, nodes[p].prev, fuel - 1)

\* length: the listnodes counted from head
length(l, k) == Len(Forward(l.nodes, l.lists[k].head, Len(l.nodes) + 1))

\* append to a list which already has listnodes, and insert after the last
\* listnode
linked_last(l, k, listnode) ==
    [l EXCEPT !.nodes[listnode].prev = l.lists[k].tail,
              !.nodes[l.lists[k].tail].next = listnode,
              !.lists[k].tail = listnode]

linked_only(l, k, listnode) ==
    [l EXCEPT !.lists[k].head = listnode, !.lists[k].tail = listnode]

linked_first(l, k, listnode) ==
    [l EXCEPT !.nodes[listnode].next = l.lists[k].head,
              !.nodes[listnode].prev = 0,
              !.nodes[l.lists[k].head].prev = listnode,
              !.lists[k].head = listnode]

\* insert before iptr, without listnode->prev->next = listnode
linked_after_only(l, listnode, iptr) ==
    [l EXCEPT !.nodes[listnode].next = iptr,
              !.nodes[listnode].prev = l.nodes[iptr].prev,
              !.nodes[iptr].prev = listnode]

\* insert before iptr, which is not the head
linked_before(l, listnode, iptr) ==
    [l EXCEPT !.nodes[listnode].next = iptr,
              !.nodes[listnode].prev = l.nodes[iptr].prev,
              !.nodes[iptr].prev = listnode,
              !.nodes[l.nodes[iptr].prev].next = listnode]

\* the listnode index steps after head
node_at(l, k, index) == Forward(l.nodes, l.lists[k].head, index + 1)[index + 1]

append_object(l, k, listnode) ==
    IF l.lists[k].head = 0 THEN linked_only(l, k, listnode)
    ELSE linked_last(l, k, listnode)

inserted_at(l, k, index, len, listnode) ==
    IF index <= 0 THEN linked_first(l, k, listnode)
    ELSE IF index >= len THEN linked_last(l, k, listnode)
    ELSE linked_before(l, listnode, node_at(l, k, index))

insert_object(l, k, index, listnode) ==
    IF l.lists[k].head = 0 THEN linked_only(l, k, listnode)
    ELSE inserted_at(l, k, IF index < 0 THEN index + length(l, k) ELSE index, length(l, k),
                     listnode)

\* obj_decref of a listnode of refcount 1: listnode_free clears and frees it
listnode_freed(l, listnode) ==
    [l EXCEPT !.nodes[listnode] = [obj |-> 0, next |-> 0, prev |-> 0, freed |-> TRUE]]

unlinked(l, k, listnode) ==
    IF l.lists[k].head = l.lists[k].tail
    THEN [l EXCEPT !.lists[k].head = 0, !.lists[k].tail = 0]
    ELSE IF l.nodes[listnode].prev = 0
    THEN [l EXCEPT !.lists[k].head = l.nodes[listnode].next,
                   !.nodes[l.nodes[listnode].next].prev = 0]
    ELSE IF l.nodes[listnode].next = 0
    THEN [l EXCEPT !.lists[k].tail = l.nodes[listnode].prev,
                   !.nodes[l.nodes[listnode].prev].next = 0]
    ELSE [l EXCEPT !.nodes[l.nodes[listnode].prev].next = l.nodes[listnode].next,
                   !.nodes[l.nodes[listnode].next].prev = l.nodes[listnode].prev]

removed_at(l, k, index, len) ==
    IF index < 0 \/ index >= len THEN l
    ELSE [listnode_freed(unlinked(l, k, node_at(l, k, index)), node_at(l, k, index))
             EXCEPT !.count[k] = @ - 1]

remove_object(l, k, index) ==
    removed_at(l, k, IF index < 0 THEN index + length(l, k) ELSE index, length(l, k))

Applied(l, name, k, index) == [l EXCEPT !.op = [name |-> name, list |-> k, index |-> index]]

Counted(l, k) == [l EXCEPT !.count[k] = @ + 1]

InitList ==
    /\ lst = [nodes |-> <<>>,
              lists |-> <<[head |-> 0, tail |-> 0], [head |-> 0, tail |-> 0]>>,
              count |-> <<0, 0>>,
              op    |-> [name |-> "", list |-> 0, index |-> 0]]
    /\ ScanIdle
    /\ SliceIdle
    /\ EvalIdle
    /\ NumberIdle
    /\ CopyIdle
    /\ ImportIdle
    /\ CheckIdle
    /\ ParseIdle
    /\ ModuleIdle
    /\ LiteralIdle

\* list_append_object(list, obj)
append_to_list ==
    /\ lst # <<>>
    /\ Len(lst.nodes) < MaxNodes
    /\ \E k \in {1, 2} :
          lst' = Applied(Counted(append_object(listnode_created(lst, Len(lst.nodes) + 1), k,
                                               Len(lst.nodes) + 1), k),
                         "append", k, 0)
    /\ UNCHANGED <<scanVars, sliceVars, evalVars, num, cp, imp, chk, prs, mdl, lit>>

\* list_insert_object(list, index, obj)
insert_in_list ==
    /\ lst # <<>>
    /\ Len(lst.nodes) < MaxNodes
    /\ \E k \in {1, 2}, index \in (0 - MaxIndex)..MaxIndex :
          lst' = Applied(Counted(insert_object(listnode_created(lst, Len(lst.nodes) + 1), k,
                                               index, Len(lst.nodes) + 1), k),
                         "insert", k, index)
    /\ UNCHANGED <<scanVars, sliceVars, evalVars, num, cp, imp, chk, prs, mdl, lit>>

\* list_remove_object(list, index)
remove_from_list ==
    /\ lst # <<>>
    /\ \E k \in {1, 2}, index \in (0 - MaxIndex)..MaxIndex :
          lst' = Applied(remove_object(lst, k, index), "remove", k, index)
    /\ UNCHANGED <<scanVars, sliceVars, evalVars, num, cp, imp, chk, prs, mdl, lit>>

NextList == append_to_list \/ insert_in_list \/ remove_from_list

SpecList == InitList /\ [][NextList]_vars

\* the scanner, the slices, the evaluator, the operators, the copies, the
\* imports, the static check, the parser, the character reader, the
\* character literals and the lists together
Init ==
    \/ InitScan \/ InitSlice \/ InitEval \/ InitNumber \/ InitCopy \/ InitImport
    \/ InitCheck \/ InitParse \/ InitModule \/ InitLiteral \/ InitList

Next ==
    \/ NextScan \/ NextSlice \/ NextEval \/ NextNumber \/ NextCopy \/ NextImport
    \/ NextCheck \/ NextParse \/ NextModule \/ NextLiteral \/ NextList

Spec == Init /\ [][Next]_vars

\* ------------------------------------------------------------------------
\* RETURN, BREAK and the operand stack
\* ------------------------------------------------------------------------
\* C1: within a call of a user function, once a RETURN has executed no later
\* statement of the function's body is started before the call completes, and
\* the result of the call is the object that RETURN pushed.
C1_ReturnEndsCall ==
    /\ \A i \in DOMAIN control : control[i].type = "FUNCTION_CALL" => ~control[i].late
    /\ (last.type = "FUNCTION_CALL" /\ last.ret > 0) => (~last.late /\ last.top = last.val)

\* a call whose body executed one RETURN has completed
C1_CallReturned == last.type = "FUNCTION_CALL" /\ last.ret = 1 /\ last.top = last.val

\* C2: the visit of an expression node, a FUNCTION_CALL with any number of
\* RETURNs in its body included, leaves the operand stack one deeper; the
\* visit of a statement leaves the depth as it was (a statement left with a
\* RETURN in progress carries the value of the RETURN).
C2_StackDepth ==
    /\ last.type \in Expressions => last.d1 = last.d0 + 1
    /\ (last.type \in Statements \cup {"BLOCK"} /\ ~last.returns) => last.d1 = last.d0

\* a call has completed and left one object
C2_CallVisited == last.type = "FUNCTION_CALL" /\ last.d1 = last.d0 + 1

\* C3: in a WHILE or DO loop, after a BREAK or RETURN has executed in the body
\* the body is not entered again, whatever the condition calls.
C3_LoopLeft ==
    /\ \A i \in DOMAIN control :
           control[i].type \in {"WHILE_STMNT", "DO_STMNT"} => ~control[i].late
    /\ last.type \in {"WHILE_STMNT", "DO_STMNT"} => ~last.late

\* a loop whose condition calls a function was left after a BREAK
C3_BreakLeftLoop ==
    /\ last.type \in {"WHILE_STMNT", "DO_STMNT"}
    /\ last.ret > 0
    /\ ~last.late
    /\ prog \in {Block(WhileCallBreak), Block(DoCallBreak)}

\* ------------------------------------------------------------------------
\* Methods
\* ------------------------------------------------------------------------
\* the value of a literal argument
literal_value(n) ==
    IF n.name = "VT_INT" THEN IntVal(str_to_int(n.val).ival)
    ELSE IF n.name = "VT_CHAR" THEN CharVal(str_to_char(n.val).ival)
    ELSE Val("STR_T", 0, n.val, <<>>)

Without(seq, i) == SubSeq(seq, 1, i) \o SubSeq(seq, i + 2, Len(seq))

\* C4: a method gets the values of its argument expressions: append(v) adds
\* the value of v at the tail, remove(i) removes the element at index i, and
\* the list [1,2,3] after append(4) and remove(0) has len() 3.
C4_MethodArguments ==
    /\ called.name = "append" =>
           /\ status \in {"run", "done"}
           /\ called.after.elems = Append(called.before.elems, literal_value(called.arguments[1]))
    /\ called.name = "remove" =>
           /\ status \in {"run", "done"}
           /\ called.after.elems
                  = Without(called.before.elems, literal_value(called.arguments[1]).ival)
    /\ prog = Block(Methods) =>
           /\ status \in {"run", "done"}
           /\ status = "done" => out = <<IntVal(3)>>

\* append was called with one argument
C4_AppendCalled == called.name = "append" /\ Len(called.arguments) = 1

\* ------------------------------------------------------------------------
\* Reference counts
\* ------------------------------------------------------------------------
\* the objects identifiers are bound to, the objects on the operand stack and
\* the objects of the listnodes and lists in use
Bound == UNION {{scope[l][i].object : i \in DOMAIN scope[l]} : l \in DOMAIN scope}

OnStack == {stack[i] : i \in DOMAIN stack}

InLists == UNION {{heap[o].items[i] : i \in DOMAIN heap[o].items} :
                     o \in {a \in DOMAIN heap : ~heap[a].freed}}

Referenced == (Bound \cup OnStack \cup InLists) \ {0}

\* C5: every object an identifier is bound to, an operand-stack slot holds or
\* a list node holds has a refcount of at least 1 and was not freed.
C5_ReferencedAlive == \A o \in Referenced : heap[o].refcount >= 1 /\ ~heap[o].freed

\* an identifier is bound to the listnode of a list that was freed, after the
\* FOR over a temporary list
C5_NodeOutlivesList ==
    /\ status = "done"
    /\ \E o \in Bound \ {0} :
           /\ heap[o].type = "LISTNODE_T"
           /\ \A a \in DOMAIN heap : heap[a].type = "LIST_T" /\ ~heap[a].freed
                                         => \A i \in DOMAIN heap[a].items : heap[a].items[i] # o

\* ------------------------------------------------------------------------
\* The operator in
\* ------------------------------------------------------------------------
\* whether some element of the sequence s is == x
Member(x, s) == \E i \in DOMAIN items_of(s) : obj_eql(x, items_of(s)[i]) = 1

\* C10: for a STR or LIST s, the empty one included, x in s yields an INT
\* object, 1 if some element of s is == x and 0 otherwise.
C10_InYieldsInt ==
    (applied.operator = "OP_IN" /\ isSequence(applied.right)) =>
        /\ ~applied.result.null
        /\ applied.result.val = IntVal(IF Member(applied.left, applied.right) THEN 1 ELSE 0)

\* in found an element of a list
C10_FoundInList ==
    /\ applied.operator = "OP_IN"
    /\ applied.right.type = "LIST_T"
    /\ ~applied.result.null
    /\ applied.result.val = IntVal(1)

\* C11: a % b on two numbers of which at least one is a FLOAT ends the
\* process with ModNotAllowedError, exit code 8, whichever operand is the
\* FLOAT and whatever the value of b.
C11_FloatModNotAllowed ==
    (num.operator = "MOD" /\ num.status # ""
        /\ "FLOAT_T" \in {num.op1.type, num.op2.type})
    => (num.status = "exit" /\ num.result.status = "ModNotAllowedError"
        /\ num.exit = ModNotAllowedError)

\* a FLOAT was divided by zero with %
C11_FloatModZero ==
    /\ num.operator = "MOD"
    /\ num.status # ""
    /\ num.op1.type = "FLOAT_T"
    /\ obj_as_float(num.op2) = 0

\* C12: a CHAR and an INT, in either order, are compared as integers by each
\* of == != < <= > >=, the INT never truncated to a byte, so that a == b
\* gives what b == a gives and a < b what b > a gives.
C12_MixedComparedAsInt ==
    (num.operator \in Comparisons /\ num.status # ""
        /\ {num.op1.type, num.op2.type} = {"CHAR_T", "INT_T"})
    => (/\ num.status = "returned"
        /\ num.result.val = IntVal(comparison(num.operator, num.op1.ival, num.op2.ival))
        /\ num.operator = "EQ"
            => num.result = obj_comparison("EQ", num.op2, num.op1)
        /\ num.operator = "LSS"
            => num.result = obj_comparison("GTR", num.op2, num.op1))

\* a CHAR was compared with an INT that no byte holds
C12_CharComparedWithWideInt ==
    /\ num.operator \in Comparisons
    /\ num.status = "returned"
    /\ num.op1.type = "CHAR_T"
    /\ num.op2.type = "INT_T"
    /\ num.op2.ival > 127

\* whether a value is, or holds at some depth, the FLOAT that is not a number
RECURSIVE holds_nan(_)
holds_nan(v) == isnan(v) \/ \E i \in DOMAIN v.elems : holds_nan(v.elems[i])

\* C13, as the code has it: the copy of a value that holds no NaN is == the
\* value; every copy shares no listnode or element object with x, and
\* append, insert, remove and assignment on the copy leave x, its listnodes
\* and its elements as they were.
C13_CopyIsDeep ==
    cp.status # ""
    => /\ objects_of(cp.heap, cp.x) \cap objects_of(cp.heap, cp.y) = {}
       /\ ValueOf(cp.heap, cp.x) = cp.value
       /\ \A o \in objects_of(cp.heap, cp.x) : cp.heap[o].refcount = 1 /\ ~cp.heap[o].freed
       /\ cp.status = "copied"
           => /\ ValueOf(cp.heap, cp.y) = cp.value
              /\ ~holds_nan(cp.value) => obj_eql(ValueOf(cp.heap, cp.y), cp.value) = 1

\* C13, as stated: the copy of every value is == the value.
C13_CopyEqual ==
    cp.status = "copied" => obj_eql(ValueOf(cp.heap, cp.y), ValueOf(cp.heap, cp.x)) = 1

\* an element of a nested list of the copy was assigned to
C13_NestedCopyAssigned ==
    /\ cp.status = "mutated"
    /\ cp.operation = "assign"
    /\ cp.value.type = "LIST_T"
    /\ \E i \in DOMAIN cp.value.elems : cp.value.elems[i].type = "LIST_T"
    /\ ValueOf(cp.heap, cp.y) # cp.value

\* C14: an import statement that names a module already in the list of
\* loaded modules reuses that module: no error is raised, and the list never
\* holds two modules of one name.
C14_ImportReuses ==
    imp # <<>> =>
        /\ imp.imported.found => imp.status \in {"run", "done"}
        /\ \A m, n \in DOMAIN imp.modules : imp.modules[m].name = imp.modules[n].name => m = n

\* an import statement named a module that was loaded before
C14_ImportedAgain == imp # <<>> /\ imp.imported.found

\* C17: when the parse of an imported module returns, the global scanner
\* (module, token, lexeme, peeked token, at_bol, indent level and indent
\* stack) and pos, bol and lineno of the importing module are what they
\* were before the call.
C17_ScannerRestored ==
    (imp # <<>> /\ imp.parsed.returned) => imp.parsed.after = imp.parsed.before

\* the parse of a module imported inside an indented block has returned
C17_ImportInBlockParsed ==
    /\ imp # <<>>
    /\ imp.parsed.returned
    /\ imp.parsed.before.scanner.module # 0
    /\ imp.parsed.before.scanner.indentlevel = 1
    /\ imp.parsed.before.scanner.token = "STR"
    /\ imp.status = "run"

\* the declaration being visited when the process ended, if it ended in the
\* first step of a DEFVAR or a FUNCTION_DECLARATION
Declaring ==
    /\ status \notin {"", "run", "done"}
    /\ control # <<>>
    /\ control[Len(control)].type \in {"DEFVAR", "FUNCTION_DECLARATION"}
    /\ control[Len(control)].pc = "start"

\* C15: the visit of a FUNCTION_DECLARATION or DEFVAR whose name exists in
\* the local scope level ends the program with NameError; bind is never
\* given a NULL identifier.
C15_RedeclarationNameError ==
    (Declaring /\ searchIdentifierInScope(scope[Len(scope)],
                                          NodeAt(control[Len(control)].node).name) # {})
    => status = "NameError"

\* the declaration in the body of a loop was visited in a second iteration
C15_DeclaredTwice ==
    /\ prog = Block(DeclaredInLoop)
    /\ Declaring
    /\ searchIdentifierInScope(scope[Len(scope)], "x") # {}

\* every call had the body of its function checked at most once, and the
\* scope holds the global level and the levels appended and not yet removed
CheckedOnce ==
    chk # <<>> =>
        /\ \A i, j \in DOMAIN chk.bodies : chk.bodies[i] = chk.bodies[j] => i = j
        /\ Len(chk.control) <= MaxVisits
        /\ chk.status = "run" => Len(chk.scope) = 1 + chk.appended - chk.removed
        /\ chk.status = "done" => chk.appended = chk.removed /\ Len(chk.scope) = 1

\* C16: the static check ends for every program, recursive functions
\* included; each FUNCTION_CALL node has the body of its function checked at
\* most once; every scope level appended during the check has been removed
\* when check(root) returns.
C16_CheckTerminates == []CheckedOnce /\ <>(chk # <<>> /\ chk.status # "run")

\* the check of a function that calls itself twice has ended
C16_RecursionChecked ==
    /\ chk # <<>>
    /\ chk.prog = Block(Fibonacci)
    /\ chk.status = "done"
    /\ Len(chk.bodies) = 3

\* C18: after scanner.peek() the next call of the scanner, peek() or next(),
\* returns the token that peek returned and does not call read_next_token,
\* whatever the token is, UNKNOWN included.
C18_PeekedOnce ==
    \A i \in 1..(Len(history) - 1) :
        history[i].op = "peek" =>
            history[i + 1].tok = history[i].tok /\ ~history[i + 1].read

\* peek() returned UNKNOWN and the next peek() read the input again
C18_UnknownPeekedTwice ==
    /\ Len(history) >= 2
    /\ history[Len(history) - 1] = [op |-> "peek", tok |-> "UNKNOWN", read |-> TRUE]
    /\ history[Len(history)].op = "peek"
    /\ history[Len(history)].read

\* the same for the tokens that are not UNKNOWN
KnownPeekedOnce ==
    \A i \in 1..(Len(history) - 1) :
        history[i].op = "peek" /\ history[i].tok # "UNKNOWN" =>
            history[i + 1].tok = history[i].tok /\ ~history[i + 1].read

\* the object of the identifier of a name in a level, 0 when the level has
\* no identifier of the name
ObjectIn(level, name) ==
    IF \E i \in DOMAIN level : level[i].name = name
    THEN level[CHOOSE i \in DOMAIN level : level[i].name = name].object
    ELSE 0

\* what the lookup of a name in g, called by f, gives: g's identifier, else
\* the global one, else none
LookedUp(name) ==
    IF ObjectIn(scope[3], name) # 0
    THEN status' = "run" /\ stack'[Len(stack')] = ObjectIn(scope[3], name)
    ELSE IF ObjectIn(scope[1], name) # 0
    THEN status' = "run" /\ stack'[Len(stack')] = ObjectIn(scope[1], name)
    ELSE status' = "crash"

\* C19: with the levels global, f and g, a reference in g gives the object of
\* g's identifier of the name if it has one, otherwise of the global
\* identifier, otherwise nothing; never the object of an identifier of f.
C19_TwoLevelLookup ==
    [][At("REFERENCE") /\ Len(scope) = 3 => LookedUp(NodeAt(control[Len(control)].node).name)]_vars

\* g has looked up a name that f and the global level both declare
C19_GlobalFoundPastCaller ==
    /\ Len(scope) = 3
    /\ last.type = "REFERENCE"
    /\ ObjectIn(scope[3], "a") = 0
    /\ ObjectIn(scope[2], "a") # 0
    /\ last.top = ObjectIn(scope[1], "a")
    /\ last.top # 0

\* g has looked up a name that only f declares
C19_CallerNotSearched ==
    /\ Len(scope) = 3
    /\ ObjectIn(scope[3], "a") = 0
    /\ ObjectIn(scope[2], "a") # 0
    /\ ObjectIn(scope[1], "a") = 0
    /\ status = "crash"

\* the number of VARIABLE identifiers of a level that are bound to an object
Bindings(level, obj) ==
    Cardinality({i \in DOMAIN level : level[i].type = "VARIABLE" /\ level[i].object = obj})

\* the calls of user functions whose body is being visited
CallsInProgress ==
    Cardinality({i \in DOMAIN control :
                    control[i].type = "FUNCTION_CALL" /\ control[i].pc = "body"})

\* the body of the call at the top of control has been visited
CallCompletes == At("FUNCTION_CALL") /\ control[Len(control)].pc = "body"

\* C20: when a call of a user function completes, the local level is the
\* level that was local before the call (every level above the global one
\* belongs to a call in progress, and the last one is removed, the others
\* are as they were), and every object bound to identifiers of the level
\* removed has its refcount decremented once for each binding.
C20_CallLeavesScope ==
    [][CallCompletes =>
        /\ Len(scope) = 1 + CallsInProgress
        /\ scope' = SubSeq(scope, 1, Len(scope) - 1)
        /\ \A o \in DOMAIN heap :
              Bindings(scope[Len(scope)], o) > 0 =>
                  heap'[o].refcount = heap[o].refcount - Bindings(scope[Len(scope)], o)]_vars

\* g, which declared a = 3 and returned it, has returned to f: f's level is
\* local again and the object of g's a is held by the stack only
C20_ReturnedToCaller ==
    /\ last.type = "FUNCTION_CALL"
    /\ Len(scope) = 2
    /\ ObjectIn(scope[2], "a") # 0
    /\ heap[ObjectIn(scope[2], "a")].ival = 2
    /\ last.top # 0
    /\ heap[last.top].ival = 3
    /\ heap[last.top].refcount = 1

\* what a program of NestedLoops prints when the enclosing loop goes on
\* after each inner loop
NestedOut(outer) ==
    IF outer = "DO_STMNT" THEN <<IntVal(1)>> ELSE <<IntVal(1), IntVal(2)>>

\* C21: after a WHILE, DO or FOR statement do_break is 0, and a BREAK or
\* CONTINUE executed in an inner loop does not end the enclosing loop or skip
\* the rest of its iteration: the statement after the inner loop is executed
\* in every iteration of the enclosing loop.
C21_InnerLoopContained ==
    /\ \A i \in DOMAIN control :
          i = Len(control) /\ control[i].type \in Loops /\ control[i].pc = "done" => do_break = 0
    /\ \A outer \in Loops, inner \in InnerLoops :
          prog = Block(NestedLoop(outer, inner)) =>
              /\ status \in {"run", "done"}
              /\ Len(out) <= Len(NestedOut(outer))
              /\ out = SubSeq(NestedOut(outer), 1, Len(out))
              /\ status = "done" => out = NestedOut(outer)

\* a loop whose inner loop executed BREAK twice has completed
C21_OuterLoopCompleted ==
    /\ prog = Block(NestedLoop("WHILE_STMNT",
                               WhileStmnt(Number("1"), <<BreakStmnt, Show(Number("9"))>>)))
    /\ status = "done"
    /\ out = <<IntVal(1), IntVal(2)>>

\* main has returned
Ended == status = "done" /\ last.type = "MAIN"

\* the objects that global variables are bound to
GlobalObjects == {scope[1][i].object : i \in DOMAIN scope[1]} \ {0}

\* C22: when main has returned, every object allocated during the run has
\* been freed, the none object excepted.
C22_AllFreed == Ended => \A o \in DOMAIN heap : o = none \/ heap[o].freed

\* main has returned and the object of a global variable is still allocated
C22_GlobalNotFreed ==
    /\ Ended
    /\ \E o \in GlobalObjects : o # none /\ ~heap[o].freed /\ heap[o].refcount = 1

\* when main has returned, the objects that are not freed are objects of
\* global variables, elements of their lists, or were left on the stack
Unfreed == {o \in DOMAIN heap : o # none /\ ~heap[o].freed}

\* the identifier that visit_reference or visit_function_call is about to
\* search for is found, with its object or its node
SearchFinds(frame, n, id) ==
    IF frame.type = "REFERENCE"
    THEN id.level # 0 /\ identifier(scope, id).object # 0
    ELSE IF frame.type = "FUNCTION_CALL" /\ frame.pc \notin {"argument", "body"}
            /\ Counter(Machine) = Len(n.kids)
    THEN id.level # 0 /\ identifier(scope, id).node # <<>>
    ELSE TRUE

Searching ==
    /\ status = "run"
    /\ control # <<>>
    /\ control[Len(control)].pc # "done"
    /\ control[Len(control)].type \in {"REFERENCE", "FUNCTION_CALL"}

Found ==
    SearchFinds(control[Len(control)], NodeAt(control[Len(control)].node),
                search(scope, NodeAt(control[Len(control)].node).name))

\* C23: in the run of a program that the static check accepts, every search
\* of visit_reference and visit_function_call finds an identifier that has
\* an object or a node.
C23_SearchFinds == Searching /\ ~Found => ~accepted(prog)

\* the reference to a variable declared in a branch that was not taken
C23_NotDeclaredOnPath ==
    /\ prog = Block(VariableNotDeclared)
    /\ Searching
    /\ control[Len(control)].type = "REFERENCE"
    /\ search(scope, "a").level = 0
    /\ accepted(prog)

\* the tokens of the end of the file: a DEDENT for each of the levels that
\* were open, then ENDMARKER
EndTokens(open) == [n \in 1..(open + 1) |-> IF n <= open THEN "DEDENT" ELSE "ENDMARKER"]

\* C24: the tokens read at the end of the file are one DEDENT for every open
\* indentation level and then ENDMARKER, and no line is scanned again after
\* the scanner has left it, so none of its tokens is read twice.
C24_EndOfFile ==
    /\ ~cur.again
    /\ cur.eof =>
          /\ Len(cur.toks) <= Len(cur.stack0)
          /\ cur.toks = SubSeq(EndTokens(Len(cur.stack0) - 1), 1, Len(cur.toks))

\* the end of the file was reached with two levels open, and the last line
\* is scanned again
C24_LastLineAgain ==
    /\ cur.again
    /\ ~cur.eof
    /\ cur.line = LineOf(Len(code) - 1)
    /\ Len(cur.stack0) >= 2
    /\ cur.toks # <<>>

\* the level of a binary operator token
LevelOf(op) == CHOOSE l \in DOMAIN Levels : op \in DOMAIN Levels[l]

OperatorOf(op) == Levels[LevelOf(op)][op]

\* C25: a op1 b op2 c with two operators of one level is parsed to
\* BINARY(op2, BINARY(op1, a, b), c).
C25_GroupsLeft ==
    (prs # <<>> /\ prs.status # "start" /\ LevelOf(prs.op1) = LevelOf(prs.op2)) =>
        /\ prs.status = "done"
        /\ prs.node = Binary(OperatorOf(prs.op2),
                             Binary(OperatorOf(prs.op1), Reference("a"), Reference("b")),
                             Reference("c"))

\* a < b <= c was parsed to BINARY(LSS, a, BINARY(LEQ, b, c))
C25_RelationalGroupsRight ==
    /\ prs # <<>>
    /\ prs.status = "done"
    /\ prs.op1 = "LESS"
    /\ prs.op2 = "LESSEQUAL"
    /\ prs.node = Binary("LSS", Reference("a"), Binary("LEQ", Reference("b"), Reference("c")))

\* the levels whose chains are parsed to the left, and the others, which are
\* parsed to the right
LeftLevels == {3, 5, 6}

GroupsByLevel ==
    (prs # <<>> /\ prs.status # "start" /\ LevelOf(prs.op1) = LevelOf(prs.op2)) =>
        /\ prs.status = "done"
        /\ prs.node =
              IF LevelOf(prs.op1) \in LeftLevels
              THEN Binary(OperatorOf(prs.op2),
                          Binary(OperatorOf(prs.op1), Reference("a"), Reference("b")),
                          Reference("c"))
              ELSE Binary(OperatorOf(prs.op1), Reference("a"),
                          Binary(OperatorOf(prs.op2), Reference("b"), Reference("c")))

\* C26: after ch = nextch() and pushch(ch), pos and lineno are what they
\* were before nextch and the assert of pushch holds, also when nextch
\* returned EOF.
C26_PushedBack ==
    (mdl # <<>> /\ mdl.op = "pushch") =>
        /\ pos = mdl.pos
        /\ lineno = mdl.lineno
        /\ mdl.asserted

\* EOF was pushed back: pos is one less than before nextch and the assert
\* of pushch failed
C26_EndPushedBack ==
    /\ mdl # <<>>
    /\ mdl.op = "pushch"
    /\ mdl.ch = EOF
    /\ mdl.pos = Len(code)
    /\ pos = mdl.pos - 1
    /\ ~mdl.asserted

\* a character of the code is pushed back as claimed
CharacterPushedBack ==
    (mdl # <<>> /\ mdl.op = "pushch" /\ mdl.ch # EOF) =>
        /\ pos = mdl.pos
        /\ lineno = mdl.lineno
        /\ mdl.asserted

\* C27: after every token read lineno is 1 plus the number of newlines
\* before the character read last, so that a token's line number is the
\* line it is on
\* (the state in which a DEDENT has just rewound the reader is left out: no
\* character was read since)
C27_LineNumber ==
    ~(at_bol /\ pos = bol /\ "DEDENT" \in {token, peeked}) =>
        lineno = 1 + (IF pos > 0 THEN LineOf(pos - 1) ELSE 0)

\* an identifier was read after a DEDENT rewound the reader to the beginning
\* of its line, and lineno is one more than the line the identifier is on
C27_LineCountedTwice ==
    /\ code = load(Dedented)
    /\ token = "IDENTIFIER"
    /\ string = <<"y">>
    /\ LineOf(pos - 1) = 3
    /\ lineno = 5

\* C28: a character literal the scanner accepts passes check_literal and is
\* evaluated to the CHAR of the byte the scanner decoded.
C28_LiteralEvaluated ==
    (lit # <<>> /\ lit.accepted) =>
        /\ lit.status \in {"scanned", "created", "checked", "done"}
        /\ lit.status = "done" => lit.ival = Ord(lit.string[1])

\* the scanner accepted '\\' and decoded a backslash; check_literal raised
\* ValueError
C28_BackslashRejected ==
    /\ lit # <<>>
    /\ code = load(Quoted(<<"\\", "\\">>))
    /\ lit.string = <<"\\">>
    /\ lit.status = "ValueError"

\* the scanner accepted '\0' and decoded NUL; check_literal raised
\* SyntaxError
NulRejected ==
    /\ lit # <<>>
    /\ code = load(Quoted(<<"\\", "0">>))
    /\ lit.string = <<"NUL">>
    /\ lit.value = <<>>
    /\ lit.status = "SyntaxError"

\* every other literal the scanner accepts is evaluated as claimed
OtherLiteralEvaluated ==
    (lit # <<>> /\ lit.accepted /\ lit.string[1] \notin {"NUL", "\\"}) =>
        /\ lit.status \in {"scanned", "created", "checked", "done"}
        /\ lit.status = "done" => lit.ival = Ord(lit.string[1])

Reversed(seq) == [i \in 1..Len(seq) |-> seq[Len(seq) + 1 - i]]

LinkedFrom(k) == Forward(lst.nodes, lst.lists[k].head, Len(lst.nodes) + 1)

\* C29: after any appends, inserts and removes, head is nil iff tail is nil
\* iff the list is empty, head has no prev and tail no next, next leads from
\* head to tail over as many listnodes as the list has objects, prev leads
\* back the same way, and no listnode is in both lists.
C29_ListLinked ==
    lst # <<>> =>
        /\ \A k \in {1, 2} :
              /\ lst.lists[k].head = 0 <=> lst.lists[k].tail = 0
              /\ lst.lists[k].head = 0 <=> lst.count[k] = 0
              /\ Len(LinkedFrom(k)) = lst.count[k]
              /\ \A i \in DOMAIN LinkedFrom(k) : ~lst.nodes[LinkedFrom(k)[i]].freed
              /\ lst.lists[k].head # 0 =>
                    /\ lst.nodes[lst.lists[k].head].prev = 0
                    /\ lst.nodes[lst.lists[k].tail].next = 0
                    /\ LinkedFrom(k)[lst.count[k]] = lst.lists[k].tail
              /\ Backward(lst.nodes, lst.lists[k].tail, Len(lst.nodes) + 1)
                     = Reversed(LinkedFrom(k))
        /\ \A i \in DOMAIN LinkedFrom(1), j \in DOMAIN LinkedFrom(2) :
              LinkedFrom(1)[i] # LinkedFrom(2)[j]

\* an object was inserted with a negative index between two listnodes of a
\* list from which a listnode was removed before, while the other list
\* holds a listnode too
C29_InsertedBetween ==
    /\ lst # <<>>
    /\ lst.op.name = "insert"
    /\ lst.op.index < 0
    /\ lst.count[lst.op.list] = 3
    /\ LinkedFrom(lst.op.list)[2] = Len(lst.nodes)
    /\ \E i \in DOMAIN lst.nodes : lst.nodes[i].freed
    /\ lst.count[3 - lst.op.list] > 0

\* C30: when a call of a user function completes, do_break and do_continue
\* are what they were when the call began.
C30_FlagsOfCaller ==
    [][CallCompletes =>
          /\ do_break' = control[Len(control)].began[1]
          /\ do_continue' = control[Len(control)].began[2]]_vars

\* def f() / break // f() / print 1 has ended: the call of f returned with
\* do_break set, and print 1 was not executed
C30_BreakLeftCallee ==
    /\ prog = Block(Escaping(BreakStmnt))
    /\ status = "done"
    /\ do_break = 1
    /\ out = <<>>

====
